---- MODULE Spec2Model ----
(***************************************************************************)
(* Model of the annotation and image-compositing core of the video review  *)
(* tool: the interactive canvas (AnnotationWidget), the editing session    *)
(* (AnnotationDialog), the engine (AnnotationManager) and the parts of     *)
(* ScreenshotManager that open a session and start a save.                 *)
(*                                                                         *)
(* Images are heap objects: `heap` is the sequence of all QImage objects   *)
(* created so far, an image reference is an index into it.  The content of *)
(* an image is its size, the pixel source it was decoded from and the      *)
(* ordered list of painter commands applied to it since; QImage.copy()     *)
(* allocates a new object with the same content.                           *)
(***************************************************************************)
EXTENDS Integers, Sequences, FiniteSets, TLC

\* ------------------------------------------------------------------ bounds
MaxShapes == 1      \* committed shapes per session, gesture specification
MaxStack == 2       \* committed shapes per session, stack specification
MaxPoints == 1      \* pointer moves recorded into one in-progress shape
MaxCalls == 2       \* engine calls per behaviour
MaxShots == 1       \* take_screenshot calls per behaviour
MaxSessions == 1    \* annotation sessions per behaviour
MaxSaves == 2       \* save requests per behaviour, save specification
MaxEdits == 1       \* strokes a caller adds to an image it has passed to a save

\* --------------------------------------------------------------- constants
MinScaleNum == 1    \* 0.05 = MinScaleNum / MinScaleDen
MinScaleDen == 20
MaxScale == 8
MinLineWidth == 1
MaxLineWidth == 10
DefaultLineWidth == 3
DefaultArrowSize == 10
DefaultFontSize == 16
DefaultBatchInterval == 5
MinBatchInterval == 1
MaxBatchInterval == 60
MinFontSize == 12
MaxFontSize == 48
DialogWidth == 800
DialogHeight == 600
ToolbarSpace == 200
MinFitBox == 100
TextMargin == 10
TextLineGap == 5

\* ------------------------------------------------------------ value types
NONE == "none"
ARROW == "arrow"
RECTANGLE == "rectangle"
FREEHAND == "freehand"
AnnotationTool == {NONE, ARROW, RECTANGLE, FREEHAND}

LeftButton == "left"
RightButton == "right"

Null == 0           \* the null image reference (Python None)

\* Python None where an AnnotationData is expected
NoneShape == [tool |-> "null", points |-> <<>>, color |-> "null", line_width |-> 0]

AnnotationData(tool, points, color, line_width) ==
    [tool |-> tool, points |-> points, color |-> color, line_width |-> line_width]

\* ------------------------------------------------------ rational numbers
\* scale factors are exact fractions <<numerator, denominator>>, denominator > 0
RECURSIVE GCD(_, _)
GCD(a, b) == IF b = 0 THEN a ELSE GCD(b, a % b)

Abs(x) == IF x < 0 THEN -x ELSE x

Rat(n, d) ==
    LET g == GCD(Abs(n), Abs(d))
    IN  IF g = 0 THEN <<0, 1>> ELSE <<n \div g, d \div g>>

RatLE(a, b) == a[1] * b[2] <= b[1] * a[2]
RatMin(a, b) == IF RatLE(a, b) THEN a ELSE b
RatMax(a, b) == IF RatLE(a, b) THEN b ELSE a

\* abs(a - b) > 1e-3
RatFarApart(a, b) == Abs(a[1] * b[2] - b[1] * a[2]) > (a[2] * b[2]) \div 1000

\* int(x / s): Python's int() truncates toward zero
IntDiv(x, s) ==
    IF x >= 0 THEN (x * s[2]) \div s[1] ELSE 0 - (((0 - x) * s[2]) \div s[1])

\* int(x * s)
IntMul(x, s) == (x * s[1]) \div s[2]

Max(a, b) == IF a >= b THEN a ELSE b
Min(a, b) == IF a <= b THEN a ELSE b

\* -------------------------------------------------------------- the heap
\* one painter command, as recorded in an image's content
Cmd(kind, pts, color, width, cap, size, text) ==
    [kind |-> kind, pts |-> pts, color |-> color, width |-> width,
     cap |-> cap, size |-> size, text |-> text]

NewImage(src, w, h) == [src |-> src, w |-> w, h |-> h, ops |-> <<>>]

\* QImage.copy(): the heap with one more object, equal in content to heap[id]
Copy(h, id) == Append(h, h[id])

\* the effect of painting commands cmds, in order, on image id
Paint(h, id, cmds) == [h EXCEPT ![id].ops = @ \o cmds]


\* ---------------------------------------------------------------- state
VARIABLES
    heap,               \* all QImage objects: Seq of image contents
    config_data,        \* a ConfigManager's dict, as its dotted get and set walk it
    config,             \* the global config_manager's entries that the core reads
    image,              \* AnnotationWidget.image (reference)
    original_image,     \* AnnotationWidget.original_image (reference)
    scale_factor,       \* AnnotationWidget.scale_factor, a fraction
    widget_size,        \* the widget's fixed size, set by _apply_scale
    drawing,            \* AnnotationWidget.drawing
    end_point,          \* AnnotationWidget.end_point (the start point, which
                        \* the code only prints, is left out)
    current_shape,      \* AnnotationWidget.current_shape (NoneShape = None)
    shapes,             \* AnnotationWidget.shapes
    current_tool,       \* AnnotationWidget.current_tool
    current_color,      \* AnnotationWidget.current_color
    line_width,         \* AnnotationWidget.line_width
    left_down,          \* the left mouse button is held (environment)
    dialog_state,       \* "closed", "open", "accepted", "rejected"
    pending,            \* the ScreenshotManager call blocked in dialog.exec()
    sessions,           \* number of sessions opened so far
    annotation_manager, \* the engine's fields
    screenshot_manager, \* the ScreenshotManager's fields
    threads,            \* all SaveImageThread objects created so far
    files,              \* the paths that exist on disk
    player,             \* the playback source: has_video, frame, name, time
    calls,              \* number of engine calls made so far
    arg_image,          \* the image argument of the last engine call
    arg_points,         \* its points argument (<< >> if it has none)
    arg_fail,           \* where an internal step of it raised ("none": nowhere)
    ret_image,          \* the image returned by the last call
    ret_path,           \* the path returned by the last call ("" = None)
    raised,             \* the last call let an exception reach its caller
    ret_ok,             \* the bool returned by the last start_batch_screenshot
    arg_val,            \* the argument of the last utility or store call
    ret_val,            \* the value it returned
    emitted,            \* the signals emitted by the last operation, in order
    painted,            \* the commands the last operation sent to the widget painter
    lastOp              \* the name of the last operation

widgetVars == <<image, original_image, scale_factor, widget_size, drawing,
                end_point, current_shape, shapes, current_tool,
                current_color, line_width, left_down>>
sessionVars == <<dialog_state, pending, sessions>>
managerVars == <<annotation_manager, screenshot_manager, threads, files, player>>
callVars == <<calls, arg_image, arg_points, arg_fail, ret_image, ret_path, raised,
              ret_ok, arg_val, ret_val>>
vars == <<heap, config, config_data, widgetVars, sessionVars, managerVars, callVars,
          emitted, painted, lastOp>>

Sig(name, payload) == <<name, payload>>

\* the values a utility call takes and returns: None, an int, a str or a dict
NoValue == [kind |-> "none", num |-> 0, str |-> << >>]
Num(n) == [kind |-> "int", num |-> n, str |-> << >>]
Str(s) == [kind |-> "str", num |-> 0, str |-> s]
Dict(items) == [kind |-> "dict", items |-> items]
EmptyDict == Dict([k \in {} |-> NoValue])

\* get_default_config, two of its entries: "p" is the "player" section and
\* "v" its "default_volume"; a name is a sequence of characters
DefaultStore ==
    Dict([k \in {<<"p">>} |-> Dict([j \in {<<"v">>} |-> Num(80)])])

\* ------------------------------------------------------- persistence store
DefaultConfig ==
    [screenshot_font_size |-> DefaultFontSize,
     screenshot_font_color |-> "#FFFFFF",
     annotation_default_color |-> "#FF0000",
     annotation_line_width |-> DefaultLineWidth,
     annotation_arrow_size |-> DefaultArrowSize,
     screenshot_batch_interval |-> DefaultBatchInterval]

\* a key the store does not hold
Absent == -2

\* config_manager.get(key, default)
StoreGet(value, default) == IF value = Absent THEN default ELSE value

\* AnnotationManager.__init__: the fields loaded from the store
NewAnnotationManager(cfg) ==
    [font_size |-> StoreGet(cfg.screenshot_font_size, DefaultFontSize),
     font_color |-> cfg.screenshot_font_color,
     default_annotation_color |-> cfg.annotation_default_color,
     line_width |-> StoreGet(cfg.annotation_line_width, DefaultLineWidth),
     arrow_size |-> cfg.annotation_arrow_size,
     active_save_threads |-> <<>>]

\* a path is its base name and the numeric suffix get_unique_filename gave it
\* (0 = no suffix); NoPath is both "" and None
NoPath == [base |-> << >>, n |-> 0]

\* ScreenshotManager.__init__
NewScreenshotManager ==
    [last_screenshot_path |-> NoPath,
     active_save_threads |-> <<>>,
     auto_annotation |-> TRUE,
     \* where a cleanup() call stands: "idle" (not called), "annotation_wait"
     \* (in annotation_manager.cleanup), "screenshot_wait" (in its own wait
     \* loop), "done" (returned)
     cleanup_pc |-> "idle",
     batch_interval |-> DefaultBatchInterval,
     \* the QTimer of the batch: Null, IdleTimer, or the interval in ms it
     \* runs with
     batch_timer |-> Null,
     is_batch_active |-> FALSE,
     batch_count |-> 0]

\* ----------------------------------------------------------- the canvas
Origin == <<0, 0>>      \* QPoint()

\* display position -> image position, as the three mouse handlers compute it
\* a conversion that records the display position as it is
ToImagePos_Unscaled(pos, s) == pos

ToImagePos(pos, s) == <<IntDiv(pos[1], s), IntDiv(pos[2], s)>>

\* _apply_scale: the size handed to setFixedSize
ApplyScale(img, s) ==
    <<Max(1, IntMul(img.w, s)), Max(1, IntMul(img.h, s))>>

\* set_scale_factor: the new scale factor
\* a clamp without its lower end
ClampScale_NoFloor(f) == RatMin(Rat(MaxScale, 1), f)

\* set_scale_factor: `max(0.05, min(8.0, factor))`
ClampScale(f) == RatMax(Rat(MinScaleNum, MinScaleDen), RatMin(Rat(MaxScale, 1), f))

SetScaleResult(old, f) ==
    IF RatFarApart(old, ClampScale(f)) THEN ClampScale(f) ELSE old

\* a fit that fills the box, enlarging a small image
FitScale_Upscales(img, max_width, max_height) ==
    LET scale_w == Rat(max_width, img.w)
        scale_h == Rat(max_height, img.h)
        scale == RatMin(scale_w, scale_h)
    IN  IF RatLE(scale, Rat(0, 1)) THEN Rat(1, 10) ELSE scale

\* fit_to_size: the factor handed to set_scale_factor
FitScale(img, max_width, max_height) ==
    LET scale_w == Rat(max_width, img.w)
        scale_h == Rat(max_height, img.h)
        scale == RatMin(Rat(1, 1), RatMin(scale_w, scale_h))
    IN  IF RatLE(scale, Rat(0, 1)) THEN Rat(1, 10) ELSE scale

\* `if self.current_shape:` -- an AnnotationData instance is always truthy
Truthy(shape) == shape # NoneShape

\* _draw_arrow_on_painter: shaft, then the two head segments.  A head segment
\* is recorded by the data that determines it: the shaft's end points, the
\* side of the shaft (angle - 30 degrees, angle + 30 degrees) and the length.
DrawArrowOnPainter(start, end, color, width, cap, size) ==
    << Cmd("line", <<start, end>>, color, width, cap, 0, << >>),
       Cmd("head-", <<start, end>>, color, width, cap, size, << >>),
       Cmd("head+", <<start, end>>, color, width, cap, size, << >>) >>

\* _draw_shape: the painter commands for one AnnotationData
DrawShape(shape_data, cfg) ==
    IF shape_data.tool = ARROW /\ Len(shape_data.points) >= 2
    THEN DrawArrowOnPainter(shape_data.points[1], shape_data.points[2],
                            shape_data.color, shape_data.line_width, "round",
                            cfg.annotation_arrow_size)
    ELSE IF shape_data.tool = RECTANGLE /\ Len(shape_data.points) >= 2
    THEN << Cmd("rect", <<shape_data.points[1], shape_data.points[2]>>,
                shape_data.color, shape_data.line_width, "round", 0, << >>) >>
    ELSE IF shape_data.tool = FREEHAND /\ Len(shape_data.points) >= 2
    THEN << Cmd("polyline", shape_data.points,
                shape_data.color, shape_data.line_width, "round", 0, << >>) >>
    ELSE << >>

\* a loop that paints the shapes newest first
RECURSIVE DrawShapesFrom_Reversed(_, _, _)
DrawShapesFrom_Reversed(ss, i, cfg) ==
    IF i > Len(ss) THEN << >>
    ELSE DrawShapesFrom_Reversed(ss, i + 1, cfg) \o DrawShape(ss[i], cfg)

\* `for shape in shapes: _draw_shape(painter, shape)`, from index i on
RECURSIVE DrawShapesFrom(_, _, _)
DrawShapesFrom(ss, i, cfg) ==
    IF i > Len(ss) THEN << >>
    ELSE DrawShape(ss[i], cfg) \o DrawShapesFrom(ss, i + 1, cfg)

DrawShapes(ss, cfg) == DrawShapesFrom(ss, 1, cfg)


\* ------------------------------------------------ AnnotationWidget: setup
\* AnnotationWidget.__init__ followed by the dialog's first fit_to_size
\* (_fit_image_to_default_window): the widget fields for a widget on image id
\* img of heap h, whose two copies are objects i1 and i2
WidgetInit(h, img, i1, i2, cfg) ==
    LET s == SetScaleResult(Rat(1, 1),
                 FitScale(h[img], Max(MinFitBox, DialogWidth - ToolbarSpace),
                                  Max(MinFitBox, DialogHeight - ToolbarSpace)))
    IN  /\ image' = i1
        /\ original_image' = i2
        /\ scale_factor' = s
        /\ widget_size' = ApplyScale(h[img], s)
        /\ drawing' = FALSE
        /\ end_point' = Origin
        /\ current_shape' = NoneShape
        /\ shapes' = << >>
        /\ current_tool' = NONE
        /\ current_color' = cfg.annotation_default_color
        /\ line_width' = StoreGet(cfg.annotation_line_width, DefaultLineWidth)
        /\ left_down' = FALSE

\* ------------------------------------------ AnnotationWidget: operations
\* set_tool
\* a setter that notifies on every call
SetTool_AlwaysNotifies(tool) ==
    /\ dialog_state = "open"
    /\ current_tool' = tool
    /\ emitted' = <<Sig("tool_changed", tool)>>
    /\ lastOp' = "set_tool"
    /\ painted' = << >>
    /\ UNCHANGED <<heap, config, config_data, image, original_image, scale_factor, widget_size,
                   drawing, end_point, current_shape, shapes,
                   current_color, line_width, left_down,
                   sessionVars, managerVars, callVars>>

\* set_tool
SetTool(tool) ==
    /\ dialog_state = "open"
    /\ current_tool' = tool
    /\ emitted' = IF current_tool # tool THEN <<Sig("tool_changed", tool)>> ELSE << >>
    /\ lastOp' = "set_tool"
    /\ painted' = << >>
    /\ UNCHANGED <<heap, config, config_data, image, original_image, scale_factor, widget_size,
                   drawing, end_point, current_shape, shapes,
                   current_color, line_width, left_down,
                   sessionVars, managerVars, callVars>>

\* set_color
SetColor(color) ==
    /\ dialog_state = "open"
    /\ current_color' = color
    /\ emitted' = IF current_color # color THEN <<Sig("color_changed", color)>> ELSE << >>
    /\ lastOp' = "set_color"
    /\ painted' = << >>
    /\ UNCHANGED <<heap, config, config_data, image, original_image, scale_factor, widget_size,
                   drawing, end_point, current_shape, shapes,
                   current_tool, line_width, left_down,
                   sessionVars, managerVars, callVars>>

ClampLineWidth(width) == Max(MinLineWidth, Min(MaxLineWidth, width))

\* set_line_width
SetLineWidth(width) ==
    /\ dialog_state = "open"
    /\ line_width' = ClampLineWidth(width)
    /\ emitted' = IF line_width # ClampLineWidth(width)
                  THEN <<Sig("line_width_changed", ClampLineWidth(width))>> ELSE << >>
    /\ lastOp' = "set_line_width"
    /\ painted' = << >>
    /\ UNCHANGED <<heap, config, config_data, image, original_image, scale_factor, widget_size,
                   drawing, end_point, current_shape, shapes,
                   current_tool, current_color, left_down,
                   sessionVars, managerVars, callVars>>

\* a rescale that drops the committed shapes
SetScaleFactor_DropsShapes(factor) ==
    /\ dialog_state = "open"
    /\ scale_factor' = SetScaleResult(scale_factor, factor)
    /\ widget_size' = IF RatFarApart(scale_factor, ClampScale(factor))
                      THEN ApplyScale(heap[original_image], ClampScale(factor))
                      ELSE widget_size
    /\ shapes' = << >>
    /\ emitted' = << >>
    /\ lastOp' = "set_scale_factor"
    /\ painted' = << >>
    /\ UNCHANGED <<heap, config, config_data, image, original_image,
                   drawing, end_point, current_shape,
                   current_tool, current_color, line_width, left_down,
                   sessionVars, managerVars, callVars>>

\* set_scale_factor
SetScaleFactor(factor) ==
    /\ dialog_state = "open"
    /\ scale_factor' = SetScaleResult(scale_factor, factor)
    /\ widget_size' = IF RatFarApart(scale_factor, ClampScale(factor))
                      THEN ApplyScale(heap[original_image], ClampScale(factor))
                      ELSE widget_size
    /\ emitted' = << >>
    /\ lastOp' = "set_scale_factor"
    /\ painted' = << >>
    /\ UNCHANGED <<heap, config, config_data, image, original_image,
                   drawing, end_point, current_shape, shapes,
                   current_tool, current_color, line_width, left_down,
                   sessionVars, managerVars, callVars>>

\* fit_to_size
FitToSize(max_width, max_height) ==
    /\ dialog_state = "open"
    /\ LET img == heap[original_image]
           degenerate == img.w = 0 \/ img.h = 0
           factor == FitScale(img, max_width, max_height)
       IN  /\ scale_factor' = IF degenerate THEN scale_factor
                              ELSE SetScaleResult(scale_factor, factor)
           /\ widget_size' = IF ~degenerate /\ RatFarApart(scale_factor, ClampScale(factor))
                             THEN ApplyScale(img, ClampScale(factor))
                             ELSE widget_size
    /\ emitted' = << >>
    /\ lastOp' = "fit_to_size"
    /\ painted' = << >>
    /\ UNCHANGED <<heap, config, config_data, image, original_image,
                   drawing, end_point, current_shape, shapes,
                   current_tool, current_color, line_width, left_down,
                   sessionVars, managerVars, callVars>>

\* a press handler that forgets the tool test
PressStarts_AnyTool(button, tool) == button = LeftButton

\* mousePressEvent: does this press start a gesture?
PressStarts(button, tool) == button = LeftButton /\ tool # NONE

\* mousePressEvent
MousePressEvent(button, pos) ==
    /\ dialog_state = "open"
    /\ button = LeftButton => ~left_down
    /\ left_down' = IF button = LeftButton THEN TRUE ELSE left_down
    /\ IF PressStarts(button, current_tool)
       THEN /\ drawing' = TRUE
            /\ end_point' = ToImagePos(pos, scale_factor)
            /\ current_shape' = AnnotationData(current_tool,
                                    <<ToImagePos(pos, scale_factor)>>,
                                    current_color, line_width)
       ELSE UNCHANGED <<drawing, end_point, current_shape>>
    /\ emitted' = << >>
    /\ lastOp' = "mouse_press"
    /\ painted' = << >>
    /\ UNCHANGED <<heap, config, config_data, image, original_image, scale_factor, widget_size,
                   shapes, current_tool, current_color, line_width,
                   sessionVars, managerVars, callVars>>

\* mouseMoveEvent: the in-progress shape after a move to image position p
MovePoints(shape, tool, p) ==
    IF tool = FREEHAND THEN [shape EXCEPT !.points = Append(@, p)] ELSE shape

\* mouseMoveEvent
MouseMoveEvent(pos) ==
    /\ dialog_state = "open"
    /\ IF drawing /\ current_tool # NONE
       THEN /\ end_point' = ToImagePos(pos, scale_factor)
            /\ current_shape' = MovePoints(current_shape, current_tool,
                                           ToImagePos(pos, scale_factor))
       ELSE UNCHANGED <<end_point, current_shape>>
    /\ emitted' = << >>
    /\ lastOp' = "mouse_move"
    /\ painted' = << >>
    /\ UNCHANGED <<heap, config, config_data, image, original_image, scale_factor, widget_size,
                   drawing, shapes, current_tool, current_color,
                   line_width, left_down,
                   sessionVars, managerVars, callVars>>

\* mouseReleaseEvent: the in-progress shape after a release at image position p
ReleasePoints(shape, tool, p) ==
    IF tool \in {ARROW, RECTANGLE} THEN [shape EXCEPT !.points = Append(@, p)] ELSE shape

\* a commit that overwrites the newest committed shape
CommitShape_Overwrites(ss, shape) ==
    IF Truthy(shape)
    THEN (IF ss # << >> THEN [ss EXCEPT ![Len(ss)] = shape] ELSE Append(ss, shape))
    ELSE ss

\* mouseReleaseEvent: the committed list after the gesture's shape is decided
CommitShape(ss, shape) ==
    IF Truthy(shape) THEN Append(ss, shape) ELSE ss

\* mouseReleaseEvent
\* a release handler that reports a completed drawing on every left release
MouseReleaseEvent_AlwaysCompletes(button, pos) ==
    /\ dialog_state = "open"
    /\ button = LeftButton => left_down
    /\ left_down' = IF button = LeftButton THEN FALSE ELSE left_down
    /\ IF button = LeftButton /\ drawing
       THEN /\ drawing' = FALSE
            /\ end_point' = ToImagePos(pos, scale_factor)
            /\ shapes' = CommitShape(shapes,
                            ReleasePoints(current_shape, current_tool,
                                          ToImagePos(pos, scale_factor)))
            /\ current_shape' = NoneShape
       ELSE UNCHANGED <<drawing, end_point, shapes, current_shape>>
    /\ emitted' = IF button = LeftButton THEN <<Sig("drawing_completed", "")>> ELSE << >>
    /\ lastOp' = "mouse_release"
    /\ painted' = << >>
    /\ UNCHANGED <<heap, config, config_data, image, original_image, scale_factor, widget_size,
                   current_tool, current_color, line_width,
                   sessionVars, managerVars, callVars>>

\* mouseReleaseEvent
MouseReleaseEvent(button, pos) ==
    /\ dialog_state = "open"
    /\ button = LeftButton => left_down
    /\ left_down' = IF button = LeftButton THEN FALSE ELSE left_down
    /\ IF button = LeftButton /\ drawing
       THEN /\ drawing' = FALSE
            /\ end_point' = ToImagePos(pos, scale_factor)
            /\ shapes' = CommitShape(shapes,
                            ReleasePoints(current_shape, current_tool,
                                          ToImagePos(pos, scale_factor)))
            /\ current_shape' = NoneShape
            /\ emitted' = <<Sig("drawing_completed", "")>>
       ELSE /\ UNCHANGED <<drawing, end_point, shapes, current_shape>>
            /\ emitted' = << >>
    /\ lastOp' = "mouse_release"
    /\ painted' = << >>
    /\ UNCHANGED <<heap, config, config_data, image, original_image, scale_factor, widget_size,
                   current_tool, current_color, line_width,
                   sessionVars, managerVars, callVars>>

\* paintEvent: the preview shape drawn after the committed ones
PreviewShape(shape, end) ==
    AnnotationData(shape.tool,
                   shape.points \o (IF shape.tool # FREEHAND THEN <<end>> ELSE << >>),
                   shape.color, shape.line_width)

\* paintEvent: scale, base image, committed shapes, then the preview
PaintEvent ==
    /\ dialog_state = "open"
    /\ painted' = << Cmd("scale", <<scale_factor>>, "", 0, "", 0, << >>),
                    Cmd("image", <<Origin>>, "", 0, "", 0, << >>) >>
                 \o DrawShapes(shapes, config)
                 \o (IF drawing /\ Truthy(current_shape)
                     THEN DrawShape(PreviewShape(current_shape, end_point), config)
                     ELSE << >>)
    /\ emitted' = << >>
    /\ lastOp' = "paint"
    /\ UNCHANGED <<heap, config, config_data, image, original_image, scale_factor, widget_size,
                   drawing, end_point, current_shape, shapes,
                   current_tool, current_color, line_width, left_down,
                   sessionVars, managerVars, callVars>>


\* ------------------------------------------------------------- the engine
NoColor == "None"       \* the default `color = None`
NoWidth == -1           \* the default `line_width = None`
NoFontSize == -1        \* the default `font_size = None`

\* where an internal step of an engine operation raises: nowhere, before the
\* working copy exists, or while the painter is active on the working copy
FailPoints == {"none", "copy", "paint"}

Whitespace == {" ", "\t", "\n"}

\* a test that takes only the empty line for blank
IsBlank_EmptyOnly(text_line) == text_line = << >>

\* `not text_line.strip()`: a line is a sequence of characters
IsBlank(text_line) == \A i \in 1..Len(text_line) : text_line[i] \in Whitespace

\* add_text_overlay: the commands of lines i..Len(text_lines)
RECURSIVE TextCmdsFrom(_, _, _, _)
TextCmdsFrom(text_lines, i, font_size, text_color) ==
    IF i > Len(text_lines) THEN << >>
    ELSE LET line_height == font_size + TextLineGap
             \* enumerate() counts from 0: index i - 1
             y_position == TextMargin + ((i - 1) + 1) * line_height
             this ==
                IF IsBlank(text_lines[i]) THEN << >>
                ELSE << Cmd("fillRect", << <<TextMargin - TextLineGap, y_position>> >>,
                            "rgba(0,0,0,128)", 0, "", 0, text_lines[i]),
                        Cmd("drawText", << <<TextMargin, y_position>> >>,
                            text_color, 0, "", font_size, text_lines[i]) >>
         IN  this \o TextCmdsFrom(text_lines, i + 1, font_size, text_color)

\* a handler that returns the original image without reporting the failure
EngineFailed_Silent(h, img, msg) ==
    [heap |-> h, ret |-> img, emitted |-> << >>, raised |-> FALSE]

\* the handler of every engine operation: one failed notification, the
\* original image returned
EngineFailed(h, img, msg) ==
    [heap |-> h, ret |-> img, emitted |-> <<Sig("annotation_failed", msg)>>,
     raised |-> FALSE]

\* add_text_overlay
AddTextOverlay(am, h, img, text_lines, font_size, fail) ==
    LET fs == IF font_size = NoFontSize THEN am.font_size ELSE font_size
        h1 == Copy(h, img)
        result_image == Len(h1)
        cmds == TextCmdsFrom(text_lines, 1, fs, am.font_color)
    IN  IF fail = "copy" THEN EngineFailed(h, img, "add_text_overlay")
        ELSE IF fail = "paint"
        THEN EngineFailed(Paint(h1, result_image, SubSeq(cmds, 1, Len(cmds) \div 2)),
                          img, "add_text_overlay")
        ELSE [heap |-> Paint(h1, result_image, cmds), ret |-> result_image,
              emitted |-> << >>, raised |-> FALSE]

\* create_screenshot_with_info; the two prefixes are the source's literals,
\* written by code point; fail = "wrapper" raises while the two lines
\* are built, the other fail points are inside add_text_overlay
CreateScreenshotWithInfo(am, h, img, video_name, timestamp, fail) ==
    LET text_lines == << <<"U+6587", "U+4EF6", ":", " ">> \o video_name,
                         <<"U+65F6", "U+95F4", ":", " ">> \o timestamp >>
    IN  IF fail = "wrapper" THEN EngineFailed(h, img, "create_screenshot_with_info")
        ELSE AddTextOverlay(am, h, img, text_lines, NoFontSize, fail)

\* draw_arrow: shaft, then the two head segments of length arrow_size
DrawArrowCmds(start_point_, end_point_, color, width, arrow_length) ==
    << Cmd("line", <<start_point_, end_point_>>, color, width, "square", 0, << >>),
       Cmd("head-", <<start_point_, end_point_>>, color, width, "square", arrow_length, << >>),
       Cmd("head+", <<start_point_, end_point_>>, color, width, "square", arrow_length, << >>) >>

\* a draw operation that paints on the caller's image instead of a copy
DrawOn_InPlace(h, img, cmds, kind, fail) ==
    IF fail = "copy" THEN [heap |-> h, ret |-> img,
                           emitted |-> <<Sig("annotation_failed", kind)>>,
                           raised |-> FALSE]
    ELSE IF fail = "paint"
    THEN [heap |-> Paint(h, img, SubSeq(cmds, 1, Len(cmds) \div 2)), ret |-> img,
          emitted |-> <<Sig("annotation_failed", kind)>>, raised |-> FALSE]
    ELSE [heap |-> Paint(h, img, cmds), ret |-> img,
          emitted |-> <<Sig("annotation_added", kind)>>, raised |-> FALSE]

\* the common shape of the three draw operations: copy, paint, notify
DrawOn(h, img, cmds, kind, fail) ==
    LET h1 == Copy(h, img)
        result_image == Len(h1)
    IN  IF fail = "copy" THEN EngineFailed(h, img, kind)
        ELSE IF fail = "paint"
        THEN EngineFailed(Paint(h1, result_image, SubSeq(cmds, 1, Len(cmds) \div 2)),
                          img, kind)
        ELSE [heap |-> Paint(h1, result_image, cmds), ret |-> result_image,
              emitted |-> <<Sig("annotation_added", kind)>>, raised |-> FALSE]

\* draw_arrow
DrawArrow(am, h, img, start_point_, end_point_, color, width, fail) ==
    LET c == IF color = NoColor THEN am.default_annotation_color ELSE color
        w == IF width = NoWidth THEN am.line_width ELSE width
    IN  DrawOn(h, img, DrawArrowCmds(start_point_, end_point_, c, w, am.arrow_size),
               "arrow", fail)

\* a rectangle operation that reports the arrow tool
DrawRectangle_ReportsArrow(am, h, img, start_point_, end_point_, color, width, filled, fail) ==
    LET c == IF color = NoColor THEN am.default_annotation_color ELSE color
        w == IF width = NoWidth THEN am.line_width ELSE width
        cmds == IF filled
                THEN << Cmd("fillRect", <<start_point_, end_point_>>, c, 0, "", 0, << >>) >>
                ELSE << Cmd("rect", <<start_point_, end_point_>>, c, w, "square", 0, << >>) >>
    IN  DrawOn(h, img, cmds, "arrow", fail)

\* draw_rectangle
DrawRectangle(am, h, img, start_point_, end_point_, color, width, filled, fail) ==
    LET c == IF color = NoColor THEN am.default_annotation_color ELSE color
        w == IF width = NoWidth THEN am.line_width ELSE width
        cmds == IF filled
                THEN << Cmd("fillRect", <<start_point_, end_point_>>, c, 0, "", 0, << >>) >>
                ELSE << Cmd("rect", <<start_point_, end_point_>>, c, w, "square", 0, << >>) >>
    IN  DrawOn(h, img, cmds, "rectangle", fail)

\* a length test that lets a single point through
TooFewPoints_OffByOne(points) == Len(points) < 1

\* draw_freehand: `not points or len(points) < 2`
TooFewPoints(points) == Len(points) < 2

\* draw_freehand: one drawLine per consecutive pair of points
RECURSIVE FreehandCmdsFrom(_, _, _, _)
FreehandCmdsFrom(points, i, color, width) ==
    IF i > Len(points) - 1 THEN << >>
    ELSE << Cmd("line", <<points[i], points[i + 1]>>, color, width, "round", 0, << >>) >>
         \o FreehandCmdsFrom(points, i + 1, color, width)

\* draw_freehand; an absent list (None) is the empty sequence: `not points`
DrawFreehand(am, h, img, points, color, width, fail) ==
    LET c == IF color = NoColor THEN am.default_annotation_color ELSE color
        w == IF width = NoWidth THEN am.line_width ELSE width
    IN  IF TooFewPoints(points)
        THEN [heap |-> h, ret |-> img, emitted |-> << >>, raised |-> FALSE]
        ELSE DrawOn(h, img, FreehandCmdsFrom(points, 1, c, w), "freehand", fail)


\* ------------------------------------------------------------ time, paths
Digits == <<"0", "1", "2", "3", "4", "5", "6", "7", "8", "9">>

\* str(n) for a non-negative integer
RECURSIVE Decimal(_)
Decimal(n) ==
    IF n < 10 THEN <<Digits[n + 1]>>
    ELSE Decimal(n \div 10) \o <<Digits[(n % 10) + 1]>>

\* f"{n:02d}" for 0 <= n <= 99
TwoDigits(n) == IF n < 10 THEN <<"0">> \o Decimal(n) ELSE Decimal(n)

\* TimeFormatter.ms_to_time_string
MsToTimeString(milliseconds) ==
    IF milliseconds < 0
    THEN <<"0", "0", ":", "0", "0", ":", "0", "0">>
    ELSE LET seconds == milliseconds \div 1000
             hours == seconds \div 3600
             minutes == (seconds % 3600) \div 60
         IN  TwoDigits(hours) \o <<":">> \o TwoDigits(minutes) \o <<":">>
             \o TwoDigits(seconds % 60)

\* timestamp.replace(":", "-")
ReplaceColons(timestamp) ==
    [i \in 1..Len(timestamp) |-> IF timestamp[i] = ":" THEN "-" ELSE timestamp[i]]

\* FileManager.get_unique_filename: the first of base, base_1, base_2, ...
\* that does not exist
RECURSIVE FirstFree(_, _, _)
FirstFree(existing, base, counter) ==
    IF [base |-> base, n |-> counter] \in existing
    THEN FirstFree(existing, base, counter + 1)
    ELSE [base |-> base, n |-> counter]

\* the paths that exist on disk
Existing(fs) == {f.path : f \in fs}

\* ScreenshotManager.generate_filename (names here need no get_safe_filename
\* replacement)
GenerateFilename(fs, video_name, timestamp) ==
    FirstFree(Existing(fs), video_name \o <<"_">> \o ReplaceColons(timestamp), 0)

\* the file system after image content c is written to path p
WriteFile(fs, p, c) == {f \in fs : f.path # p} \cup {[path |-> p, content |-> c]}

\* ------------------------------------------------------- saving (start)
NewThread(img, file_path, owner) ==
    [image |-> img, file_path |-> file_path, owner |-> owner, state |-> "running",
     outcome |-> "pending", handled |-> FALSE]

\* ScreenshotManager.save_screenshot_image: copy the image, start a thread on
\* the copy, keep the thread.  The result is the new heap, thread table and
\* manager.
SaveScreenshotImage(sm, h, ths, img, file_path) ==
    LET h1 == Copy(h, img)
        safe_image == Len(h1)
        ths1 == Append(ths, NewThread(safe_image, file_path, "screenshot"))
    IN  [heap |-> h1, threads |-> ths1,
         manager |-> [sm EXCEPT !.active_save_threads = Append(@, Len(ths1))],
         ret |-> TRUE]

\* AnnotationManager.save_annotated_image: start a thread on the caller's
\* image itself, keep the thread
SaveAnnotatedImage(am, ths, img, file_path) ==
    LET ths1 == Append(ths, NewThread(img, file_path, "annotation"))
    IN  [threads |-> ths1,
         manager |-> [am EXCEPT !.active_save_threads = Append(@, Len(ths1))],
         ret |-> TRUE]

\* ---------------------------------------------------- AnnotationDialog
\* a finalize that paints on original_image itself
GetAnnotatedImageOn_InPlace(h, orig, ss, cfg) ==
    LET h1 == Copy(h, orig)
    IN  [heap |-> Paint(h1, orig, DrawShapes(ss, cfg)), ret |-> orig]

\* AnnotationDialog.get_annotated_image: a copy of original_image with the
\* committed shapes painted in list order.  Result: new heap, new image.
GetAnnotatedImageOn(h, orig, ss, cfg) ==
    LET h1 == Copy(h, orig)
        final_image == Len(h1)
    IN  [heap |-> Paint(h1, final_image, DrawShapes(ss, cfg)), ret |-> final_image]

\* a caller that does not look at the dialog's result
ExecAccepted_Always(result) == TRUE

\* `dialog.exec() == QDialog.Accepted`
ExecAccepted(result) == result = "accepted"

\* an undo that removes the oldest shape instead of the newest
UndoShapes_DropsOldest(ss) == IF ss # << >> THEN Tail(ss) ELSE ss

\* _on_undo: the committed list after the undo button
UndoShapes(ss) == IF ss # << >> THEN SubSeq(ss, 1, Len(ss) - 1) ELSE ss

\* _on_undo
OnUndo ==
    /\ dialog_state = "open"
    /\ shapes' = UndoShapes(shapes)
    /\ emitted' = << >>
    /\ lastOp' = "undo"
    /\ painted' = << >>
    /\ UNCHANGED <<heap, config, config_data, image, original_image, scale_factor, widget_size,
                   drawing, end_point, current_shape,
                   current_tool, current_color, line_width, left_down,
                   sessionVars, managerVars, callVars>>


\* ------------------------------------------------------ playback source
NoPending == [kind |-> "none", video_name |-> << >>, timestamp |-> << >>,
              path |-> NoPath]

\* a video is opened; its first frame may or may not have been captured yet
LoadVideo(name, size, position, with_frame) ==
    /\ dialog_state # "open"
    /\ ~player.has_video
    /\ heap' = IF with_frame THEN Append(heap, NewImage("frame", size[1], size[2]))
               ELSE heap
    /\ player' = [has_video |-> TRUE,
                  current_frame |-> IF with_frame THEN Len(heap) + 1 ELSE Null,
                  file_name |-> name, position |-> position]
    /\ emitted' = << >>
    /\ lastOp' = "load_video"
    /\ painted' = << >>
    /\ UNCHANGED <<config, config_data, widgetVars, sessionVars, annotation_manager,
                   screenshot_manager, threads, files, callVars>>

\* ---------------------------------------------------- ScreenshotManager
\* a call that ends without opening a dialog: status message, None returned
ReturnNone(op, msgs) ==
    /\ ret_path' = NoPath
    /\ emitted' = msgs
    /\ lastOp' = op
    /\ painted' = << >>
    /\ UNCHANGED <<heap, config, config_data, widgetVars, sessionVars, managerVars,
                   calls, arg_image, arg_points, arg_fail, ret_image, raised, ret_ok,
                   arg_val, ret_val>>

\* the dialog is constructed on image img and exec() starts its event loop
OpenDialog(op, img, pend) ==
    /\ heap' = Copy(Copy(heap, img), img)
    /\ WidgetInit(heap, img, Len(heap) + 1, Len(heap) + 2, config)
    /\ dialog_state' = "open"
    /\ pending' = pend
    /\ sessions' = sessions + 1
    /\ emitted' = << >>
    /\ lastOp' = op
    /\ painted' = << >>
    /\ UNCHANGED <<config, config_data, managerVars, callVars>>

\* annotate_current_frame, up to dialog.exec()
AnnotateCurrentFrame ==
    /\ dialog_state # "open"
    /\ sessions < MaxSessions
    /\ IF ~player.has_video
       THEN ReturnNone("annotate_current_frame",
                       <<Sig("status_message", "no video, cannot annotate")>>)
       ELSE IF player.current_frame = Null
       THEN ReturnNone("annotate_current_frame",
                       <<Sig("status_message", "no frame to annotate")>>)
       ELSE OpenDialog("annotate_current_frame", player.current_frame,
                       [kind |-> "current_frame", video_name |-> player.file_name,
                        timestamp |-> MsToTimeString(player.position),
                        path |-> NoPath])

\* get_last_screenshot_info()["exists"]
LastScreenshotExists(sm, fs) ==
    sm.last_screenshot_path # NoPath /\ sm.last_screenshot_path \in Existing(fs)

\* annotate_last_screenshot, up to dialog.exec(); QImage(path) decodes the file
AnnotateLastScreenshot ==
    /\ dialog_state # "open"
    /\ sessions < MaxSessions
    /\ IF ~LastScreenshotExists(screenshot_manager, files)
       THEN ReturnNone("annotate_last_screenshot",
                       <<Sig("status_message", "no screenshot to annotate")>>)
       ELSE LET f == CHOOSE f \in files : f.path = screenshot_manager.last_screenshot_path
            IN  /\ heap' = Copy(Copy(Append(heap, f.content), Len(heap) + 1), Len(heap) + 1)
                /\ WidgetInit(Append(heap, f.content), Len(heap) + 1,
                              Len(heap) + 2, Len(heap) + 3, config)
                /\ dialog_state' = "open"
                /\ pending' = [kind |-> "last_screenshot", video_name |-> << >>,
                               timestamp |-> << >>, path |-> f.path]
                /\ sessions' = sessions + 1
                /\ emitted' = << >>
                /\ lastOp' = "annotate_last_screenshot"
                /\ painted' = << >>
                /\ UNCHANGED <<config, config_data, managerVars, callVars>>

\* the dialog closes with result `result` ("accepted": AnnotationDialog.accept,
\* "rejected": AnnotationDialog.reject) and the blocked annotate_* call runs on
DialogDone(result) ==
    /\ dialog_state = "open"
    /\ dialog_state' = result
    /\ pending' = NoPending
    /\ lastOp' = IF result = "accepted" THEN "accept" ELSE "reject"
    /\ painted' = << >>
    /\ IF ExecAccepted(result)
       THEN LET \* accept(): get_annotated_image, copy, emit
                r1 == GetAnnotatedImageOn(heap, original_image, shapes, config)
                h2 == Copy(r1.heap, r1.ret)
                final_image_copy == Len(h2)
                \* annotate_*: dialog.get_annotated_image()
                r3 == GetAnnotatedImageOn(h2, original_image, shapes, config)
                current == pending.kind = "current_frame"
                r4 == IF current
                      THEN CreateScreenshotWithInfo(annotation_manager, r3.heap, r3.ret,
                               pending.video_name, pending.timestamp, "none")
                      ELSE [heap |-> r3.heap, ret |-> r3.ret, emitted |-> << >>,
                            raised |-> FALSE]
                file_path == IF current
                             THEN GenerateFilename(files, pending.video_name,
                                                   pending.timestamp)
                             ELSE pending.path
                r5 == SaveScreenshotImage(screenshot_manager, r4.heap, threads,
                                          r4.ret, file_path)
            IN  /\ heap' = r5.heap
                /\ threads' = r5.threads
                /\ screenshot_manager' =
                      IF current
                      THEN [r5.manager EXCEPT !.last_screenshot_path = file_path]
                      ELSE r5.manager
                /\ ret_image' = r3.ret
                /\ ret_path' = file_path
                /\ emitted' = <<Sig("annotation_completed", "image")>> \o r4.emitted
                              \o <<Sig("status_message",
                                       IF current THEN "annotated screenshot saved" ELSE "annotation saved")>>
       ELSE /\ ret_path' = NoPath
            /\ ret_image' = Null
            /\ emitted' = <<Sig("status_message", "annotation cancelled")>>
            /\ UNCHANGED <<heap, threads, screenshot_manager>>
    /\ UNCHANGED <<config, config_data, widgetVars, sessions, annotation_manager, files, player,
                   calls, arg_image, arg_points, arg_fail, raised, ret_ok,
                   arg_val, ret_val>>

\* the body of take_screenshot on a manager with fields sm: the heap, the
\* threads and the manager it leaves, the path it returns and its signals
TakeScreenshotOn(sm) ==
    IF ~player.has_video
    THEN [heap |-> heap, threads |-> threads, manager |-> sm, ret |-> NoPath,
          emitted |-> <<Sig("screenshot_failed", "no video, cannot capture"),
                        Sig("status_message", "no video, cannot capture")>>]
    ELSE IF player.current_frame = Null
    THEN [heap |-> heap, threads |-> threads, manager |-> sm, ret |-> NoPath,
          emitted |-> <<Sig("screenshot_failed", "no frame"),
                        Sig("status_message", "no frame")>>]
    ELSE LET timestamp == MsToTimeString(player.position)
             file_path == GenerateFilename(files, player.file_name, timestamp)
             \* process_screenshot_image
             r1 == IF sm.auto_annotation
                   THEN CreateScreenshotWithInfo(annotation_manager, heap,
                            player.current_frame, player.file_name, timestamp, "none")
                   ELSE [heap |-> heap, ret |-> player.current_frame,
                         emitted |-> << >>, raised |-> FALSE]
             r2 == SaveScreenshotImage(sm, r1.heap, threads, r1.ret, file_path)
         IN  [heap |-> r2.heap, threads |-> r2.threads, manager |-> r2.manager,
              ret |-> file_path, emitted |-> r1.emitted]

\* take_screenshot, called from the main window
TakeScreenshot ==
    /\ dialog_state # "open"
    /\ calls' = calls + 1
    /\ lastOp' = "take_screenshot"
    /\ painted' = << >>
    /\ LET r == TakeScreenshotOn(screenshot_manager)
       IN  /\ heap' = r.heap
           /\ threads' = r.threads
           /\ screenshot_manager' = r.manager
           /\ ret_path' = r.ret
           /\ emitted' = r.emitted
    /\ UNCHANGED <<config, config_data, widgetVars, sessionVars, annotation_manager, files, player,
                   arg_image, arg_points, arg_fail, ret_image, raised, ret_ok,
                   arg_val, ret_val>>

\* ------------------------------------------------------ batch screenshots
NoInterval == -1        \* the default `interval = None`
IdleTimer == -1         \* a QTimer that has been created and never started
MaxTimerMs == 2147483647

\* an interval that is stored as requested
ClampBatchInterval_AsGiven(interval) == interval

\* `max(1, min(60, interval))`
ClampBatchInterval(interval) == Max(MinBatchInterval, Min(MaxBatchInterval, interval))

Progress(count, file_path) == <<"batch_screenshot_progress", count, file_path>>

\* a start that is refused only without a video
StartRefused_OnlyWithoutVideo(sm, has_video) == ~has_video

\* start_batch_screenshot: the two early `return False`
StartRefused(sm, has_video) == sm.is_batch_active \/ ~has_video

\* QTimer.start(interval * 1000) takes a C int: a wider number of
\* milliseconds raises OverflowError (interval * 1000 > MaxTimerMs, computed
\* on the seconds)
TimerStartRaises(interval) == interval > MaxTimerMs \div 1000

\* a start that sets is_batch_active before it starts the timer
FailedStart_Active(sm, bi) ==
    [sm EXCEPT !.batch_interval = bi, !.batch_timer = IdleTimer, !.batch_count = 0,
               !.is_batch_active = TRUE]

\* start_batch_screenshot when batch_timer.start raises: the timer has been
\* created and the counter reset, the flag has not been set yet
FailedStart(sm, bi) ==
    [sm EXCEPT !.batch_interval = bi, !.batch_timer = IdleTimer, !.batch_count = 0]

\* start_batch_screenshot
StartBatchScreenshot(interval) ==
    /\ dialog_state # "open"
    /\ IF StartRefused(screenshot_manager, player.has_video)
       THEN /\ ret_ok' = FALSE
            /\ emitted' = IF screenshot_manager.is_batch_active THEN << >>
                          ELSE <<Sig("screenshot_failed", "no video, cannot start batch"),
                                 Sig("status_message", "no video, cannot start batch")>>
            /\ UNCHANGED <<heap, threads, screenshot_manager, config, config_data>>
       ELSE IF TimerStartRaises(
                   IF interval = NoInterval THEN screenshot_manager.batch_interval
                   ELSE ClampBatchInterval(interval))
       THEN LET bi == IF interval = NoInterval THEN screenshot_manager.batch_interval
                      ELSE ClampBatchInterval(interval)
            IN  \* `except Exception`
                /\ ret_ok' = FALSE
                /\ config' = IF interval = NoInterval THEN config
                             ELSE [config EXCEPT !.screenshot_batch_interval = bi]
                /\ screenshot_manager' = FailedStart(screenshot_manager, bi)
                /\ emitted' = <<Sig("screenshot_failed", "batch start failed"),
                                Sig("status_message", "batch start failed")>>
                /\ UNCHANGED <<heap, threads, config_data>>
       ELSE LET bi == IF interval = NoInterval THEN screenshot_manager.batch_interval
                      ELSE ClampBatchInterval(interval)
                sm1 == [screenshot_manager EXCEPT
                           !.batch_interval = bi,
                           !.batch_timer = bi * 1000,
                           !.batch_count = 0,
                           !.is_batch_active = TRUE]
                \* the first screenshot, taken at once
                r == TakeScreenshotOn(sm1)
                got == r.ret # NoPath
            IN  /\ ret_ok' = TRUE
                /\ config' = IF interval = NoInterval THEN config
                             ELSE [config EXCEPT !.screenshot_batch_interval = bi]
                /\ UNCHANGED config_data
                /\ heap' = r.heap
                /\ threads' = r.threads
                /\ screenshot_manager' =
                      IF got THEN [r.manager EXCEPT !.batch_count = 1] ELSE r.manager
                /\ emitted' = <<Sig("batch_screenshot_started", bi),
                                Sig("status_message", "batch started")>>
                              \o r.emitted
                              \o (IF got THEN <<Progress(1, r.ret)>> ELSE << >>)
    /\ lastOp' = "start_batch_screenshot"
    /\ painted' = << >>
    /\ UNCHANGED <<widgetVars, sessionVars, annotation_manager, files, player,
                   calls, arg_image, arg_points, arg_fail, ret_image, ret_path, raised,
                   arg_val, ret_val>>

\* a stop that does not report the batch as stopped
StopBatch_Silent(sm) ==
    [manager |-> [sm EXCEPT !.batch_timer = Null, !.is_batch_active = FALSE],
     emitted |-> << >>]

\* the body of stop_batch_screenshot on a manager with fields sm
StopBatch(sm) ==
    [manager |-> [sm EXCEPT !.batch_timer = Null, !.is_batch_active = FALSE],
     emitted |-> IF sm.is_batch_active
                 THEN <<Sig("batch_screenshot_stopped", sm.batch_count),
                        Sig("status_message", "batch stopped")>>
                 ELSE << >>]

\* stop_batch_screenshot, called from the main window
StopBatchScreenshot ==
    /\ dialog_state # "open"
    /\ screenshot_manager' = StopBatch(screenshot_manager).manager
    /\ emitted' = StopBatch(screenshot_manager).emitted
    /\ lastOp' = "stop_batch_screenshot"
    /\ painted' = << >>
    /\ UNCHANGED <<heap, config, config_data, widgetVars, sessionVars, annotation_manager,
                   threads, files, player, callVars>>

\* a timeout handler that counts every timeout
BatchCounted_EveryTimeout(sm, got) == sm.batch_count + 1

\* on_batch_timer_timeout: the count after a screenshot that returned a path
\* (got) or none
BatchCounted(sm, got) == IF got THEN sm.batch_count + 1 ELSE sm.batch_count

\* a timeout handler that does not look at the player
OnBatchTimerTimeout_IgnoresVideo ==
    /\ screenshot_manager.cleanup_pc \in {"idle", "done"}
    /\ IF ~screenshot_manager.is_batch_active
       THEN /\ emitted' = << >>
            /\ UNCHANGED <<heap, threads, screenshot_manager>>
       ELSE IF FALSE
       THEN /\ screenshot_manager' = StopBatch(screenshot_manager).manager
            /\ emitted' = StopBatch(screenshot_manager).emitted
            /\ UNCHANGED <<heap, threads>>
       ELSE LET r == TakeScreenshotOn(screenshot_manager)
                got == r.ret # NoPath
                n == BatchCounted(r.manager, got)
            IN  /\ heap' = r.heap
                /\ threads' = r.threads
                /\ screenshot_manager' = [r.manager EXCEPT !.batch_count = n]
                /\ emitted' = r.emitted
                              \o (IF got THEN <<Progress(n, r.ret),
                                                Sig("status_message", "batch running")>>
                                  ELSE << >>)
    /\ lastOp' = "on_batch_timer_timeout"
    /\ painted' = << >>
    /\ UNCHANGED <<config, config_data, widgetVars, sessionVars, annotation_manager, files, player,
                   callVars>>

\* on_batch_timer_timeout: the handler of the batch timer, which the timer
\* calls while it runs and any caller may call; it runs on the interaction
\* thread, so not while cleanup() is blocked in a wait
OnBatchTimerTimeout ==
    /\ screenshot_manager.cleanup_pc \in {"idle", "done"}
    /\ IF ~screenshot_manager.is_batch_active
       THEN /\ emitted' = << >>
            /\ UNCHANGED <<heap, threads, screenshot_manager>>
       ELSE IF ~player.has_video
       THEN /\ screenshot_manager' = StopBatch(screenshot_manager).manager
            /\ emitted' = StopBatch(screenshot_manager).emitted
            /\ UNCHANGED <<heap, threads>>
       ELSE LET r == TakeScreenshotOn(screenshot_manager)
                got == r.ret # NoPath
                n == BatchCounted(r.manager, got)
            IN  /\ heap' = r.heap
                /\ threads' = r.threads
                /\ screenshot_manager' = [r.manager EXCEPT !.batch_count = n]
                /\ emitted' = r.emitted
                              \o (IF got THEN <<Progress(n, r.ret),
                                                Sig("status_message", "batch running")>>
                                  ELSE << >>)
    /\ lastOp' = "on_batch_timer_timeout"
    /\ painted' = << >>
    /\ UNCHANGED <<config, config_data, widgetVars, sessionVars, annotation_manager, files, player,
                   callVars>>

\* the player stops reporting a video: has_video() reads the QMediaPlayer's
\* source and media status, which the manager does not control
MediaLost ==
    /\ player.has_video
    /\ player' = [player EXCEPT !.has_video = FALSE]
    /\ emitted' = << >>
    /\ lastOp' = "media_lost"
    /\ painted' = << >>
    /\ UNCHANGED <<heap, config, config_data, widgetVars, sessionVars, annotation_manager,
                   screenshot_manager, threads, files, callVars>>

\* set_batch_interval
SetBatchInterval(interval) ==
    /\ dialog_state # "open"
    /\ screenshot_manager' =
          [screenshot_manager EXCEPT
              !.batch_interval = ClampBatchInterval(interval),
              !.batch_timer = IF screenshot_manager.is_batch_active
                                 /\ screenshot_manager.batch_timer # Null
                              THEN ClampBatchInterval(interval) * 1000 ELSE @]
    /\ config' = [config EXCEPT !.screenshot_batch_interval = ClampBatchInterval(interval)]
    /\ emitted' = << >>
    /\ lastOp' = "set_batch_interval"
    /\ painted' = << >>
    /\ UNCHANGED <<heap, config_data, widgetVars, sessionVars, annotation_manager,
                   threads, files, player, callVars>>

\* ------------------------------------------------------ SaveImageThread
\* a run() that reports only success
RunOutcome_SilentFailure(success) == IF success THEN "finished" ELSE "none"

\* SaveImageThread.run: the one signal it emits
RunOutcome(success) == IF success THEN "finished" ELSE "error"

\* SaveImageThread.run: write the file and emit finished, or emit error
SaveThreadRun(t, success) ==
    /\ t \in 1..Len(threads)
    /\ threads[t].state = "running"
    /\ threads' = [threads EXCEPT ![t].state = "emitted",
                                  ![t].outcome = RunOutcome(success)]
    /\ files' = IF success
                THEN WriteFile(files, threads[t].file_path, heap[threads[t].image])
                ELSE files
    /\ emitted' = << >>
    /\ lastOp' = "thread_run"
    /\ painted' = << >>
    /\ UNCHANGED <<heap, config, config_data, widgetVars, sessionVars, annotation_manager,
                   screenshot_manager, player, callVars>>

\* run() has returned: QThread.isFinished() is true from here on
SaveThreadExit(t) ==
    /\ t \in 1..Len(threads)
    /\ threads[t].state = "emitted"
    /\ threads' = [threads EXCEPT ![t].state = "finished"]
    /\ emitted' = << >>
    /\ lastOp' = "thread_exit"
    /\ painted' = << >>
    /\ UNCHANGED <<heap, config, config_data, widgetVars, sessionVars, annotation_manager,
                   screenshot_manager, files, player, callVars>>

\* a pruning that drops every thread whose run() has emitted its signal
RECURSIVE PruneFinished_DropsSignalled(_, _)
PruneFinished_DropsSignalled(active, ths) ==
    IF active = << >> THEN << >>
    ELSE (IF ths[Head(active)].state = "running" THEN <<Head(active)>> ELSE << >>)
         \o PruneFinished_DropsSignalled(Tail(active), ths)

\* `[t for t in self.active_save_threads if not t.isFinished()]`
RECURSIVE PruneFinished(_, _)
PruneFinished(active, ths) ==
    IF active = << >> THEN << >>
    ELSE (IF ths[Head(active)].state # "finished" THEN <<Head(active)>> ELSE << >>)
         \o PruneFinished(Tail(active), ths)

\* a notification that carries a file path
Notify(name, file_path) == <<name, "path", file_path>>

\* the signal of thread t is queued for the interaction thread and not yet
\* handled
SignalQueued(ths, t) ==
    /\ ths[t].state \in {"emitted", "finished"}
    /\ ths[t].outcome \in {"finished", "error"}
    /\ ~ths[t].handled

\* ScreenshotManager._on_save_finished / _on_save_error: the manager after
\* the signal of thread t, with thread table ths
ScreenshotSaveHandled(sm, ths, t) ==
    IF ths[t].outcome = "finished"
    THEN [sm EXCEPT !.last_screenshot_path = ths[t].file_path,
                    !.active_save_threads = PruneFinished(@, ths)]
    ELSE [sm EXCEPT !.active_save_threads = PruneFinished(@, ths)]

\* ScreenshotManager._on_save_finished / _on_save_error: what they emit
\* a handler that announces a success twice
ScreenshotSaveEmits_Twice(ths, t) ==
    IF ths[t].outcome = "finished"
    THEN <<Notify("screenshot_saved", ths[t].file_path),
           Notify("screenshot_saved", ths[t].file_path),
           Sig("status_message", "screenshot saved")>>
    ELSE <<Notify("screenshot_failed", ths[t].file_path),
           Sig("status_message", "save failed")>>

\* _on_save_finished / _on_save_error: the signals of the handler
ScreenshotSaveEmits(ths, t) ==
    IF ths[t].outcome = "finished"
    THEN <<Notify("screenshot_saved", ths[t].file_path),
           Sig("status_message", "screenshot saved")>>
    ELSE <<Notify("screenshot_failed", ths[t].file_path),
           Sig("status_message", "save failed")>>

\* the queued signal of thread t reaches the ScreenshotManager on the
\* interaction thread: _on_save_finished or _on_save_error
OnSaveSignal(t) ==
    /\ t \in 1..Len(threads)
    /\ threads[t].owner = "screenshot"
    /\ SignalQueued(threads, t)
    /\ screenshot_manager.cleanup_pc \in {"idle", "done"}
    /\ threads' = [threads EXCEPT ![t].handled = TRUE]
    /\ emitted' = ScreenshotSaveEmits(threads, t)
    /\ screenshot_manager' = ScreenshotSaveHandled(screenshot_manager, threads, t)
    /\ lastOp' = "on_save_signal"
    /\ painted' = << >>
    /\ UNCHANGED <<heap, config, config_data, widgetVars, sessionVars, annotation_manager,
                   files, player, callVars>>

\* AnnotationManager._on_save_finished / _on_save_error: the manager after
\* the signal of thread t
AnnotationSaveHandled(am, ths, t) ==
    [am EXCEPT !.active_save_threads = PruneFinished(@, ths)]

\* AnnotationManager._on_save_finished / _on_save_error: what they emit; the
\* failure message names the file
AnnotationSaveEmits(ths, t) ==
    IF ths[t].outcome = "finished"
    THEN <<Notify("annotation_saved", ths[t].file_path)>>
    ELSE <<Notify("annotation_failed", ths[t].file_path)>>

\* the queued signal of thread t reaches the AnnotationManager
OnAnnotationSaveSignal(t) ==
    /\ t \in 1..Len(threads)
    /\ threads[t].owner = "annotation"
    /\ SignalQueued(threads, t)
    /\ screenshot_manager.cleanup_pc \in {"idle", "done"}
    /\ threads' = [threads EXCEPT ![t].handled = TRUE]
    /\ emitted' = AnnotationSaveEmits(threads, t)
    /\ annotation_manager' = AnnotationSaveHandled(annotation_manager, threads, t)
    /\ lastOp' = "on_annotation_save_signal"
    /\ painted' = << >>
    /\ UNCHANGED <<heap, config, config_data, widgetVars, sessionVars, screenshot_manager,
                   files, player, callVars>>

\* ------------------------------------------------------ engine setters
\* a font size setter that stores the requested value
ClampFontSize_Unclamped(size) == size

\* set_font_size: `max(12, min(48, size))`
ClampFontSize(size) == Max(MinFontSize, Min(MaxFontSize, size))

\* the part of an engine setter that is the same for all four
EngineSetter(op) ==
    /\ emitted' = << >>
    /\ lastOp' = op
    /\ painted' = << >>
    /\ UNCHANGED <<heap, config_data, widgetVars, sessionVars, screenshot_manager,
                   threads, files, player, callVars>>

\* AnnotationManager.set_font_size
EngineSetFontSize(size) ==
    /\ annotation_manager' = [annotation_manager EXCEPT !.font_size = ClampFontSize(size)]
    /\ config' = [config EXCEPT !.screenshot_font_size = ClampFontSize(size)]
    /\ EngineSetter("engine_set_font_size")

\* AnnotationManager.set_font_color
EngineSetFontColor(color) ==
    /\ annotation_manager' = [annotation_manager EXCEPT !.font_color = color]
    /\ config' = [config EXCEPT !.screenshot_font_color = color]
    /\ EngineSetter("engine_set_font_color")

\* AnnotationManager.set_annotation_color
EngineSetAnnotationColor(color) ==
    /\ annotation_manager' = [annotation_manager EXCEPT !.default_annotation_color = color]
    /\ config' = [config EXCEPT !.annotation_default_color = color]
    /\ EngineSetter("engine_set_annotation_color")

\* AnnotationManager.set_line_width
EngineSetLineWidth(width) ==
    /\ annotation_manager' = [annotation_manager EXCEPT !.line_width = ClampLineWidth(width)]
    /\ config' = [config EXCEPT !.annotation_line_width = ClampLineWidth(width)]
    /\ EngineSetter("engine_set_line_width")

\* ------------------------------------------------ save requests (public)
\* the part of a save request that is the same for both managers
SaveCall(op, img) ==
    /\ img \in 1..Len(heap)
    /\ screenshot_manager.cleanup_pc = "idle"
    /\ dialog_state # "open"
    /\ arg_image' = img
    /\ emitted' = << >>
    /\ lastOp' = op
    /\ painted' = << >>
    /\ UNCHANGED <<config, config_data, widgetVars, sessionVars, files, player,
                   calls, arg_points, arg_fail, ret_image, raised, ret_ok,
                   arg_val, ret_val>>

\* a caller saves its image img through the engine
CallSaveAnnotatedImage(img, file_path) ==
    LET r == SaveAnnotatedImage(annotation_manager, threads, img, file_path)
    IN  /\ SaveCall("save_annotated_image", img)
        /\ threads' = r.threads
        /\ annotation_manager' = r.manager
        /\ ret_path' = file_path
        /\ UNCHANGED <<heap, screenshot_manager>>

\* a caller saves its image img through the screenshot manager
CallSaveScreenshotImage(img, file_path) ==
    LET r == SaveScreenshotImage(screenshot_manager, heap, threads, img, file_path)
    IN  /\ SaveCall("save_screenshot_image", img)
        /\ heap' = r.heap
        /\ threads' = r.threads
        /\ screenshot_manager' = r.manager
        /\ ret_path' = file_path
        /\ UNCHANGED annotation_manager

\* the caller of the last save request draws on the image it passed
CallerPaints ==
    /\ lastOp \in {"save_annotated_image", "save_screenshot_image"}
    /\ screenshot_manager.cleanup_pc = "idle"
    /\ heap' = Paint(heap, arg_image,
                     <<Cmd("line", <<Origin, Origin>>, "#0000FF", 1, "square", 0, << >>)>>)
    /\ emitted' = << >>
    /\ lastOp' = "caller_paints"
    /\ painted' = << >>
    /\ UNCHANGED <<config, config_data, widgetVars, sessionVars, managerVars, callVars>>

\* PlayerManager.set_position: the playback position moves
SetPosition(position) ==
    /\ player.has_video
    /\ player.position # position
    /\ screenshot_manager.cleanup_pc = "idle"
    /\ player' = [player EXCEPT !.position = position]
    /\ emitted' = << >>
    /\ lastOp' = "set_position"
    /\ painted' = << >>
    /\ UNCHANGED <<heap, config, config_data, widgetVars, sessionVars, annotation_manager,
                   screenshot_manager, threads, files, callVars>>

\* ------------------------------------------------------------- teardown
\* every thread of the list has finished: each wait() of the loop returns
AllFinished(active, ths) == \A i \in 1..Len(active) : ths[active[i]].state = "finished"

\* the step of a cleanup() call from position pc to position next; its
\* first step stops an active batch
CleanupStep(pc, next) ==
    /\ screenshot_manager.cleanup_pc = pc
    /\ IF pc = "idle" /\ screenshot_manager.is_batch_active
       THEN /\ screenshot_manager' =
                  [StopBatch(screenshot_manager).manager EXCEPT !.cleanup_pc = next]
            /\ emitted' = StopBatch(screenshot_manager).emitted
       ELSE /\ screenshot_manager' = [screenshot_manager EXCEPT !.cleanup_pc = next]
            /\ emitted' = << >>
    /\ lastOp' = "cleanup"
    /\ painted' = << >>
    /\ UNCHANGED <<heap, config, config_data, widgetVars, sessionVars, annotation_manager,
                   threads, files, player, callVars>>

\* ScreenshotManager.cleanup is called and enters annotation_manager.cleanup
CleanupBegin ==
    /\ dialog_state # "open"
    /\ CleanupStep("idle", "annotation_wait")

\* AnnotationManager.cleanup: its wait loop is over
CleanupAnnotationWaited ==
    /\ AllFinished(annotation_manager.active_save_threads, threads)
    /\ CleanupStep("annotation_wait", "screenshot_wait")

\* ScreenshotManager.cleanup: its own wait loop is over and it returns
CleanupReturn ==
    /\ AllFinished(screenshot_manager.active_save_threads, threads)
    /\ CleanupStep("screenshot_wait", "done")


\* ------------------------------------------------- engine calls (public)
\* the state change of one engine call with result record r
EngineCall(op, img, points, fail, r) ==
    /\ calls < MaxCalls
    /\ calls' = calls + 1
    /\ heap' = r.heap
    /\ arg_image' = img
    /\ arg_points' = points
    /\ arg_fail' = fail
    /\ ret_image' = r.ret
    /\ raised' = r.raised
    /\ emitted' = r.emitted
    /\ lastOp' = op
    /\ painted' = << >>
    /\ UNCHANGED <<config, config_data, widgetVars, sessionVars, managerVars, ret_path, ret_ok,
                   arg_val, ret_val>>

CallAddTextOverlay(img, text_lines, font_size, fail) ==
    EngineCall("add_text_overlay", img, << >>, fail,
               AddTextOverlay(annotation_manager, heap, img, text_lines, font_size, fail))

CallCreateScreenshotWithInfo(img, video_name, timestamp, fail) ==
    EngineCall("create_screenshot_with_info", img, << >>, fail,
               CreateScreenshotWithInfo(annotation_manager, heap, img, video_name,
                                        timestamp, fail))

CallDrawArrow(img, s, e, color, width, fail) ==
    EngineCall("draw_arrow", img, <<s, e>>, fail,
               DrawArrow(annotation_manager, heap, img, s, e, color, width, fail))

CallDrawRectangle(img, s, e, color, width, filled, fail) ==
    EngineCall("draw_rectangle", img, <<s, e>>, fail,
               DrawRectangle(annotation_manager, heap, img, s, e, color, width,
                             filled, fail))

CallDrawFreehand(img, points, color, width, fail) ==
    EngineCall("draw_freehand", img, points, fail,
               DrawFreehand(annotation_manager, heap, img, points, color, width, fail))

\* ------------------------------------------------------------ the inputs
Buttons == {LeftButton, RightButton}
Positions == {<<0, 0>>, <<30, 40>>}         \* display positions of pointer events
Colors == {"#FF0000", "#00FF00"}
Widths == {11}
Boxes == {<<600, 400>>, <<300, 200>>}       \* (max_width, max_height) of a fit
Factors == {Rat(1, 50), Rat(12, 1)}         \* requested scale factors
VideoSizes == {<<1200, 800>>}
VideoNames == {<<"v">>}
VideoPositions == {125000}
ImagePoints == {<<10, 10>>, <<20, 15>>}
PointLists == {<< >>, << <<10, 10>> >>, << <<10, 10>>, <<20, 15>> >>,
               << <<10, 10>>, <<20, 15>>, <<10, 10>> >>}
TextLineLists == { << >>, << <<"a">> >>, << <<"a">>, <<" ">>, <<"b">> >> }
FontSizes == {NoFontSize, 16}
\* requested factors: out of range on both sides, within 1e-3 of 1.0 and of 0.05
ScaleFactors == Factors \cup {Rat(2001, 2000), Rat(101, 2000)}
\* boxes: smaller than the frame, larger than the frame, empty
FitBoxes == Boxes \cup {<<3000, 2000>>, <<0, 400>>}
\* what the store may hold for the two numeric keys, and what setters are given
StoredFontSizes == {Absent, 5, 16, 100}
StoredLineWidths == {Absent, 0, 3, 20}
RequestedFontSizes == {5, 20, 100}
RequestedLineWidths == {0, 5, 20}
BatchIntervals == {NoInterval, 0, 10, 100}
SeekPositions == {125000, 3725000}
SavePaths == {[base |-> <<"o", "u", "t">>, n |-> 0]}
Styles == {<<NoColor, NoWidth>>, <<"#00FF00", 5>>}     \* (color, line_width) arguments

\* -------------------------------------------------------- specifications
\* the application after start-up: managers constructed, no video, no dialog
InitRest ==
    /\ config_data = DefaultStore
    /\ image = Null
    /\ original_image = Null
    /\ scale_factor = Rat(1, 1)
    /\ widget_size = <<0, 0>>
    /\ drawing = FALSE
    /\ end_point = Origin
    /\ current_shape = NoneShape
    /\ shapes = << >>
    /\ current_tool = NONE
    /\ current_color = "None"
    /\ line_width = 0
    /\ left_down = FALSE
    /\ dialog_state = "closed"
    /\ pending = NoPending
    /\ sessions = 0
    /\ annotation_manager = NewAnnotationManager(DefaultConfig)
    /\ threads = << >>
    /\ files = {}
    /\ player = [has_video |-> FALSE, current_frame |-> Null, file_name |-> << >>,
                 position |-> 0]
    /\ calls = 0
    /\ arg_image = Null
    /\ arg_points = << >>
    /\ arg_fail = "none"
    /\ ret_image = Null
    /\ ret_path = NoPath
    /\ raised = FALSE
    /\ ret_ok = FALSE
    /\ arg_val = NoValue
    /\ ret_val = NoValue
    /\ emitted = << >>
    /\ painted = << >>
    /\ lastOp = "init"

InitFields ==
    /\ config = DefaultConfig
    /\ screenshot_manager = NewScreenshotManager
    /\ InitRest

Init ==
    /\ heap = << >>
    /\ InitFields

\* the model's bounds on a session: a gesture starts only while fewer than
\* maxShapes shapes are committed, and at most MaxPoints moves are recorded
PressInBounds(maxShapes) == Len(shapes) < maxShapes
MoveInBounds ==
    (drawing /\ current_tool = FREEHAND) => Len(current_shape.points) <= MaxPoints
\* or a gesture ends only while fewer than maxShapes shapes are committed
ReleaseInBounds(maxShapes) == drawing => Len(shapes) < maxShapes

\* one annotation session on the current frame: the canvas state machine
Next ==
    \/ \E n \in VideoNames, z \in VideoSizes, p \in VideoPositions, f \in BOOLEAN :
          LoadVideo(n, z, p, f)
    \/ AnnotateCurrentFrame
    \/ \E t \in AnnotationTool : SetTool(t)
    \/ \E c \in Colors : SetColor(c)
    \/ \E w \in Widths : SetLineWidth(w)
    \/ \E b \in Buttons, p \in Positions : PressInBounds(MaxShapes) /\ MousePressEvent(b, p)
    \/ \E p \in Positions : MoveInBounds /\ MouseMoveEvent(p)
    \/ \E b \in Buttons, p \in Positions : MouseReleaseEvent(b, p)
    \/ OnUndo
    \/ DialogDone("accepted")
    \/ DialogDone("rejected")

Spec == Init /\ [][Next]_vars

\* the same session with a deeper shape stack and fewer styles: the arrow and
\* freehand tools chosen between gestures, one color, the left button, no
\* rescaling
NextStack ==
    \/ \E n \in VideoNames, z \in VideoSizes, p \in VideoPositions :
          LoadVideo(n, z, p, TRUE)
    \/ AnnotateCurrentFrame
    \/ \E t \in {ARROW, FREEHAND} : ~drawing /\ SetTool(t)
    \/ \E p \in Positions : MousePressEvent(LeftButton, p)
    \/ \E p \in Positions : MoveInBounds /\ MouseMoveEvent(p)
    \/ \E p \in Positions : ReleaseInBounds(MaxStack) /\ MouseReleaseEvent(LeftButton, p)
    \/ PaintEvent
    \/ OnUndo
    \/ DialogDone("accepted")
    \/ DialogDone("rejected")

SpecStack == Init /\ [][NextStack]_vars

\* the screenshot manager around a session: screenshots, background saves,
\* both ways into a session, and a short gesture vocabulary inside it
NextSession ==
    \/ \E n \in VideoNames, z \in VideoSizes, p \in VideoPositions :
          LoadVideo(n, z, p, TRUE)
    \/ calls < MaxShots /\ TakeScreenshot
    \/ \E t \in 1..Len(threads), ok \in BOOLEAN : SaveThreadRun(t, ok)
    \/ \E t \in 1..Len(threads) : SaveThreadExit(t)
    \/ \E t \in 1..Len(threads) : OnSaveSignal(t)
    \/ AnnotateCurrentFrame
    \/ AnnotateLastScreenshot
    \/ SetTool(ARROW)
    \/ \E f \in Factors : SetScaleFactor(f)
    \/ \E b \in Boxes : FitToSize(b[1], b[2])
    \/ \E p \in Positions : PressInBounds(MaxShapes) /\ MousePressEvent(LeftButton, p)
    \/ \E p \in Positions : MouseReleaseEvent(LeftButton, p)
    \/ OnUndo
    \/ DialogDone("accepted")
    \/ DialogDone("rejected")

SpecSession == Init /\ [][NextSession]_vars

\* the engine alone, called on images its caller holds
InitEngine ==
    /\ heap = << NewImage("test", 800, 600) >>
    /\ InitFields

NextEngine ==
    \/ \E i \in 1..Len(heap), l \in TextLineLists, s \in FontSizes, f \in FailPoints :
          CallAddTextOverlay(i, l, s, f)
    \/ \E i \in 1..Len(heap), f \in FailPoints \cup {"wrapper"} :
          CallCreateScreenshotWithInfo(i, <<"v">>, MsToTimeString(125000), f)
    \/ \E i \in 1..Len(heap), e \in ImagePoints, y \in Styles, f \in FailPoints :
          CallDrawArrow(i, <<10, 10>>, e, y[1], y[2], f)
    \/ \E i \in 1..Len(heap), y \in Styles, fl \in BOOLEAN, f \in FailPoints :
          CallDrawRectangle(i, <<10, 10>>, <<20, 15>>, y[1], y[2], fl, f)
    \/ \E i \in 1..Len(heap), ps \in PointLists, y \in Styles, f \in FailPoints :
          CallDrawFreehand(i, ps, y[1], y[2], f)

SpecEngine == InitEngine /\ [][NextEngine]_vars

\* background saves: requests through both managers, the threads, their
\* queued signals, a caller that keeps drawing, and teardown
SaveInBounds == Len(threads) < MaxSaves
EditInBounds == arg_image # Null /\ Len(heap[arg_image].ops) < MaxEdits
Idle == screenshot_manager.cleanup_pc = "idle"

NextSave ==
    \/ \E n \in VideoNames, z \in VideoSizes, p \in VideoPositions :
          Idle /\ LoadVideo(n, z, p, TRUE)
    \/ \E p \in SeekPositions : SetPosition(p)
    \/ SaveInBounds /\ Idle /\ player.has_video /\ TakeScreenshot
    \/ \E p \in SavePaths :
          SaveInBounds /\ player.has_video /\ CallSaveAnnotatedImage(player.current_frame, p)
    \/ \E p \in SavePaths :
          SaveInBounds /\ player.has_video /\ CallSaveScreenshotImage(player.current_frame, p)
    \/ EditInBounds /\ CallerPaints
    \/ \E t \in 1..Len(threads), ok \in BOOLEAN : SaveThreadRun(t, ok)
    \/ \E t \in 1..Len(threads) : SaveThreadExit(t)
    \/ \E t \in 1..Len(threads) : OnSaveSignal(t)
    \/ \E t \in 1..Len(threads) : OnAnnotationSaveSignal(t)
    \/ CleanupBegin
    \/ CleanupAnnotationWaited
    \/ CleanupReturn

SpecSave == Init /\ [][NextSave]_vars

\* the same while the application keeps running: no teardown; every started
\* thread runs to its end and the event loop delivers every queued signal
NextSaveLive ==
    \/ \E n \in VideoNames, z \in VideoSizes, p \in VideoPositions :
          LoadVideo(n, z, p, TRUE)
    \/ SaveInBounds /\ player.has_video /\ TakeScreenshot
    \/ \E p \in SavePaths :
          SaveInBounds /\ player.has_video /\ CallSaveAnnotatedImage(player.current_frame, p)
    \/ \E t \in 1..Len(threads), ok \in BOOLEAN : SaveThreadRun(t, ok)
    \/ \E t \in 1..Len(threads) : SaveThreadExit(t)
    \/ \E t \in 1..Len(threads) : OnSaveSignal(t)
    \/ \E t \in 1..Len(threads) : OnAnnotationSaveSignal(t)

SaveFairness ==
    \A t \in 1..MaxSaves :
        /\ WF_vars(\E ok \in BOOLEAN : SaveThreadRun(t, ok))
        /\ WF_vars(SaveThreadExit(t))
        /\ WF_vars(OnSaveSignal(t))
        /\ WF_vars(OnAnnotationSaveSignal(t))

SpecSaveLive == Init /\ [][NextSaveLive]_vars /\ SaveFairness

\* the same with screenshot requests made before a video is loaded
NextShotLive ==
    \/ NextSaveLive
    \/ ~player.has_video /\ calls < MaxShots /\ TakeScreenshot

SpecShotLive == Init /\ [][NextShotLive]_vars /\ SaveFairness

\* the canvas under rescaling: one arrow gesture at the scales that
\* set_scale_factor and fit_to_size produce
NextScale ==
    \/ \E n \in VideoNames, z \in VideoSizes, p \in VideoPositions :
          LoadVideo(n, z, p, TRUE)
    \/ AnnotateCurrentFrame
    \/ SetTool(ARROW)
    \/ \E f \in ScaleFactors : SetScaleFactor(f)
    \/ \E b \in FitBoxes : FitToSize(b[1], b[2])
    \/ \E p \in Positions : PressInBounds(MaxShapes) /\ MousePressEvent(LeftButton, p)
    \/ \E p \in Positions : MouseReleaseEvent(LeftButton, p)
    \/ DialogDone("rejected")

SpecScale == Init /\ [][NextScale]_vars

\* the rescaled session with pointer moves, repaints, undo and finalize
NextCanvas ==
    \/ NextScale
    \/ \E p \in Positions : MoveInBounds /\ MouseMoveEvent(p)
    \/ PaintEvent
    \/ OnUndo
    \/ DialogDone("accepted")

SpecCanvas == Init /\ [][NextCanvas]_vars

\* gestures of the arrow and the freehand tool while the scale factor changes
NextPointer ==
    \/ \E n \in VideoNames, z \in VideoSizes, p \in VideoPositions :
          LoadVideo(n, z, p, TRUE)
    \/ AnnotateCurrentFrame
    \/ \E t \in {ARROW, FREEHAND} : ~drawing /\ SetTool(t)
    \/ \E f \in ScaleFactors : SetScaleFactor(f)
    \/ \E p \in Positions : PressInBounds(MaxShapes) /\ MousePressEvent(LeftButton, p)
    \/ \E p \in Positions : MoveInBounds /\ MouseMoveEvent(p)
    \/ \E p \in Positions : MouseReleaseEvent(LeftButton, p)
    \/ DialogDone("rejected")

SpecPointer == Init /\ [][NextPointer]_vars

\* the engine and the canvas over a store that may hold anything: the engine
\* is constructed from the store, its setters write back, and the canvas
\* reads its stroke width from the store when a dialog opens
InitConfigured ==
    /\ heap = << NewImage("test", 800, 600) >>
    /\ \E fs \in StoredFontSizes, lw \in StoredLineWidths :
          /\ config = [DefaultConfig EXCEPT !.screenshot_font_size = fs,
                                            !.annotation_line_width = lw]
          /\ annotation_manager = NewAnnotationManager(config)
    /\ config_data = DefaultStore
    /\ image = Null
    /\ original_image = Null
    /\ scale_factor = Rat(1, 1)
    /\ widget_size = <<0, 0>>
    /\ drawing = FALSE
    /\ end_point = Origin
    /\ current_shape = NoneShape
    /\ shapes = << >>
    /\ current_tool = NONE
    /\ current_color = "None"
    /\ line_width = 0
    /\ left_down = FALSE
    /\ dialog_state = "closed"
    /\ pending = NoPending
    /\ sessions = 0
    /\ screenshot_manager = NewScreenshotManager
    /\ threads = << >>
    /\ files = {}
    /\ player = [has_video |-> TRUE, current_frame |-> 1, file_name |-> <<"v">>,
                 position |-> 0]
    /\ calls = 0
    /\ arg_image = Null
    /\ arg_points = << >>
    /\ arg_fail = "none"
    /\ ret_image = Null
    /\ ret_path = NoPath
    /\ raised = FALSE
    /\ ret_ok = FALSE
    /\ arg_val = NoValue
    /\ ret_val = NoValue
    /\ emitted = << >>
    /\ painted = << >>
    /\ lastOp = "init"

NextConfigured ==
    \/ \E z \in RequestedFontSizes : EngineSetFontSize(z)
    \/ \E w \in RequestedLineWidths : EngineSetLineWidth(w)
    \/ \E c \in Colors : EngineSetFontColor(c)
    \/ \E c \in Colors : EngineSetAnnotationColor(c)
    \/ AnnotateCurrentFrame
    \/ \E w \in Widths : SetLineWidth(w)
    \/ DialogDone("rejected")

SpecConfigured == InitConfigured /\ [][NextConfigured]_vars

\* batches of screenshots: start, timer timeouts, stop and teardown, with the
\* saves they start
StartInBounds ==
    (~screenshot_manager.is_batch_active /\ player.current_frame # Null) => SaveInBounds
TimeoutInBounds ==
    (screenshot_manager.is_batch_active /\ player.current_frame # Null) => SaveInBounds

NextBatch ==
    \/ \E n \in VideoNames, z \in VideoSizes, p \in VideoPositions, f \in BOOLEAN :
          Idle /\ player.file_name = << >> /\ LoadVideo(n, z, p, f)
    \/ MediaLost
    \/ \E i \in BatchIntervals : Idle /\ StartInBounds /\ StartBatchScreenshot(i)
    \/ \E i \in BatchIntervals \ {NoInterval} : Idle /\ SetBatchInterval(i)
    \/ TimeoutInBounds /\ OnBatchTimerTimeout
    \/ Idle /\ StopBatchScreenshot
    \/ \E t \in 1..Len(threads), ok \in BOOLEAN : SaveThreadRun(t, ok)
    \/ \E t \in 1..Len(threads) : SaveThreadExit(t)
    \/ \E t \in 1..Len(threads) : OnSaveSignal(t)
    \/ CleanupBegin
    \/ CleanupAnnotationWaited
    \/ CleanupReturn

SpecBatch == Init /\ [][NextBatch]_vars

\* what the store may hold for screenshot.batch_interval when the manager is
\* constructed: the default, or a number of seconds whose milliseconds do not
\* fit a timer interval
StoredBatchIntervals == {DefaultBatchInterval, 3000000}

\* the batch machine of a manager constructed over such a store
InitStored ==
    /\ heap = << >>
    /\ \E bi \in StoredBatchIntervals :
          /\ config = [DefaultConfig EXCEPT !.screenshot_batch_interval = bi]
          /\ screenshot_manager =
                [NewScreenshotManager EXCEPT
                    !.batch_interval = StoreGet(bi, DefaultBatchInterval)]
    /\ InitRest

SpecBatchStored == InitStored /\ [][NextBatch]_vars


\* ================================================================ claims
Names(sigs) == {sigs[i][1] : i \in 1..Len(sigs)}
ShapeKinds == {"line", "head-", "head+", "rect", "polyline"}
HasShapeCmd(img) == \E i \in 1..Len(img.ops) : img.ops[i].kind \in ShapeKinds
EngineOps == {"add_text_overlay", "create_screenshot_with_info", "draw_arrow",
              "draw_rectangle", "draw_freehand"}

\* C1: every committed shape has at least 2 points; a gesture that ends with
\* fewer than 2 points is discarded, not appended to shapes.
C1_CommittedHaveTwoPoints ==
    \A i \in 1..Len(shapes) : Len(shapes[i].points) >= 2

\* C2: every committed Arrow or Rectangle shape has exactly 2 points, also when
\* set_tool is called while a gesture is active.
C2_ArrowRectangleExactlyTwo ==
    \A i \in 1..Len(shapes) :
        shapes[i].tool \in {ARROW, RECTANGLE} => Len(shapes[i].points) = 2

\* C3: the setters leave the in-progress shape alone, and the shape committed
\* at pointer-up has the tool, color and width of pointer-down, with its points
\* collected according to the tool of pointer-down: a move appends for
\* Freehand only, a release appends for Arrow and Rectangle only.
C3_GestureFollowsPressTool ==
    [][ /\ lastOp' \in {"set_tool", "set_color", "set_line_width"}
            => current_shape' = current_shape
        /\ (lastOp' = "mouse_move" /\ drawing)
            => current_shape'.points =
                  IF current_shape.tool = FREEHAND
                  THEN Append(current_shape.points, end_point')
                  ELSE current_shape.points
        /\ (lastOp' = "mouse_release" /\ drawing /\ ~drawing')
            => /\ Len(shapes') = Len(shapes) + 1
               /\ shapes'[Len(shapes')] =
                     [current_shape EXCEPT !.points =
                         IF current_shape.tool \in {ARROW, RECTANGLE}
                         THEN Append(@, end_point') ELSE @]
      ]_vars

\* C4: undo removes exactly the newest committed shape and keeps the earlier
\* ones in order, does nothing on an empty list, and in every case leaves the
\* in-progress shape, the drawing flag, the tool, the color and the width as
\* they were.
C4_UndoPopsNewest ==
    [][ lastOp' = "undo"
        => /\ shapes' = IF shapes = << >> THEN << >>
                        ELSE [i \in 1..(Len(shapes) - 1) |-> shapes[i]]
           /\ UNCHANGED <<current_shape, drawing, end_point, current_tool,
                          current_color, line_width>>
      ]_vars

C4_Witness ==
    /\ lastOp = "undo"
    /\ Len(shapes) = 1
    /\ drawing

\* C5: what the session hands over on accept is a new image, equal to the base
\* image with the commands of each committed shape painted in append order,
\* first to last; the in-progress shape contributes nothing, the base image is
\* left as it was, and painting the canvas changes neither the shapes nor any
\* image.
RECURSIVE C5_Layers(_, _)
C5_Layers(ss, cfg) ==
    IF ss = << >> THEN << >>
    ELSE C5_Layers(SubSeq(ss, 1, Len(ss) - 1), cfg) \o DrawShape(ss[Len(ss)], cfg)

C5_FinalizeInOrder ==
    [][ /\ lastOp' = "accept"
            => /\ ret_image' \notin 1..Len(heap)
               /\ heap'[ret_image'] =
                     [heap[original_image] EXCEPT !.ops = @ \o C5_Layers(shapes, config)]
               /\ \A i \in 1..Len(heap) : heap'[i] = heap[i]
        /\ lastOp' = "paint" => UNCHANGED <<heap, shapes, current_shape>>
      ]_vars

C5_Witness ==
    /\ lastOp = "accept"
    /\ Len(shapes) = 2
    /\ shapes[1].tool = FREEHAND /\ shapes[2].tool = ARROW
    /\ Len(shapes[1].points) = 2 /\ Len(shapes[2].points) = 2
    /\ drawing
    /\ Len(heap[ret_image].ops) >= 4

\* C6: a session that ends by cancel returns no result: no annotation_completed,
\* no save started, None returned, no file or image changed; a save of an image
\* that carries shapes is started by accept only.
C6_CancelNoResult ==
    [][ /\ lastOp' = "reject"
            => /\ "annotation_completed" \notin Names(emitted')
               /\ ret_path' = NoPath
               /\ UNCHANGED <<threads, screenshot_manager, annotation_manager,
                              files, heap>>
        /\ "annotation_completed" \in Names(emitted') => lastOp' = "accept"
        /\ (/\ Len(threads') > Len(threads)
            /\ HasShapeCmd(heap'[threads'[Len(threads')].image]))
            => lastOp' = "accept"
      ]_vars

C6_Witness ==
    /\ lastOp = "reject"
    /\ Len(shapes) >= 1
    /\ Len(shapes[1].points) = 2
    /\ ret_path = NoPath

\* C7: a pointer-down while the tool is None changes nothing and emits nothing,
\* and no shape, committed or in progress, ever has tool None.
C7_NoToolNoShape ==
    /\ [](/\ current_shape # NoneShape => current_shape.tool \in {ARROW, RECTANGLE, FREEHAND}
          /\ \A i \in 1..Len(shapes) : shapes[i].tool \in {ARROW, RECTANGLE, FREEHAND})
    /\ [][ (lastOp' = "mouse_press" /\ current_tool = NONE)
           => /\ UNCHANGED <<drawing, current_shape, shapes, end_point>>
              /\ emitted' = << >>
         ]_vars

C7_Witness ==
    /\ lastOp = "mouse_press"
    /\ left_down
    /\ current_tool = NONE
    /\ ~drawing
    /\ current_shape = NoneShape

\* C8: draw_freehand with a point list of length 0 or 1 returns the very image
\* it was given, creates and changes no image, and emits nothing.
C8_FreehandShortIsNoop ==
    [][ (lastOp' = "draw_freehand" /\ Len(arg_points') < 2)
        => /\ ret_image' = arg_image'
           /\ heap' = heap
           /\ emitted' = << >>
           /\ ~raised'
      ]_vars

C8_Witness ==
    /\ lastOp = "draw_freehand"
    /\ Len(arg_points) = 1
    /\ ret_image = arg_image

\* an internal step of the last engine call raised
C9_StepFailed ==
    /\ lastOp \in EngineOps
    /\ arg_fail # "none"
    /\ ~(lastOp = "draw_freehand" /\ Len(arg_points) < 2)

\* C9: when an internal step of an engine operation fails, the caller gets the
\* original image back, unchanged, with exactly one failed notification, and
\* no exception reaches it.
C9_FailureIsContained ==
    [][ C9_StepFailed'
        => /\ ret_image' = arg_image'
           /\ heap'[arg_image'] = heap[arg_image']
           /\ Len(emitted') = 1
           /\ emitted'[1][1] = "annotation_failed"
           /\ ~raised'
      ]_vars

C9_Witness ==
    /\ lastOp = "create_screenshot_with_info"
    /\ arg_fail = "paint"
    /\ ret_image = arg_image
    /\ Len(heap) > 1

\* C10: no engine operation changes an image that existed before the call, and
\* a call whose steps all succeed returns an image that did not exist before.
C10_InputUntouched ==
    [][ lastOp' \in EngineOps
        => /\ \A i \in 1..Len(heap) : heap'[i] = heap[i]
           /\ (arg_fail' = "none" /\ ~(lastOp' = "draw_freehand" /\ Len(arg_points') < 2))
                => /\ ret_image' \notin 1..Len(heap)
                   /\ ret_image' # arg_image'
      ]_vars

C10_Witness ==
    /\ lastOp = "draw_arrow"
    /\ arg_fail = "none"
    /\ ret_image # arg_image
    /\ heap[arg_image].ops = << >>
    /\ Len(heap[ret_image].ops) = 3

\* the tool kind a draw operation reports
C11_KindOf(op) ==
    IF op = "draw_arrow" THEN "arrow"
    ELSE IF op = "draw_rectangle" THEN "rectangle" ELSE "freehand"

\* C11: a draw_arrow, draw_rectangle or draw_freehand (2 points or more) call
\* whose steps all succeed emits exactly one shape-added notification carrying
\* the operation's tool kind and nothing else; no engine call emits both a
\* shape-added and a failed notification.
C11_OneAddedPerDraw ==
    [][ /\ (/\ lastOp' \in {"draw_arrow", "draw_rectangle", "draw_freehand"}
            /\ arg_fail' = "none"
            /\ ~(lastOp' = "draw_freehand" /\ Len(arg_points') < 2))
            => emitted' = <<Sig("annotation_added", C11_KindOf(lastOp'))>>
        /\ lastOp' \in EngineOps
            => ~({"annotation_added", "annotation_failed"} \subseteq Names(emitted'))
      ]_vars

C11_Witness ==
    /\ lastOp = "draw_rectangle"
    /\ arg_fail = "none"
    /\ emitted = <<Sig("annotation_added", "rectangle")>>
    /\ ret_image # arg_image

OutcomeNames == {"screenshot_saved", "screenshot_failed",
                 "annotation_saved", "annotation_failed"}
OutcomesIn(sigs) == {i \in 1..Len(sigs) : sigs[i][1] \in OutcomeNames}
ActiveOf(t) ==
    IF threads[t].owner = "screenshot" THEN screenshot_manager.active_save_threads
    ELSE annotation_manager.active_save_threads
InList(t, active) == \E i \in 1..Len(active) : active[i] = t

C13_CleanupJoinsAll ==
    /\ \A t \in 1..Len(threads) :
          threads[t].state # "finished" => InList(t, ActiveOf(t))
    /\ screenshot_manager.cleanup_pc = "done"
          => \A t \in 1..Len(threads) : threads[t].state = "finished"

C13_Witness ==
    /\ screenshot_manager.cleanup_pc = "done"
    /\ Len(threads) = 2
    /\ threads[1].owner # threads[2].owner
    /\ threads[1].handled /\ ~threads[2].handled
    /\ \A t \in 1..2 : threads[t].state = "finished"

\* C14: once a save thread has finished and its notification has been
\* handled, the thread is no longer in its manager's active_save_threads list.
C14_HandledIsDiscarded ==
    \A t \in 1..Len(threads) :
        (threads[t].state = "finished" /\ threads[t].handled)
            => ~InList(t, ActiveOf(t))

\* C15: whatever the caller draws on its image after a save request has
\* returned, the image a waiting save thread is going to write stays as it was
\* when the request was made.
C15_ThreadOwnsItsImage ==
    [][ lastOp' = "caller_paints"
        => \A t \in 1..Len(threads) :
              threads[t].state = "running"
                  => heap'[threads[t].image] = heap[threads[t].image]
      ]_vars

\* C16: when the signals of two saves are queued at once, the manager ends in
\* the same state whichever of the two is handled first.
C16_OrderDoesNotMatter ==
    \A t1, t2 \in 1..Len(threads) :
        (/\ t1 # t2
         /\ SignalQueued(threads, t1) /\ SignalQueued(threads, t2)
         /\ threads[t1].owner = threads[t2].owner)
        => IF threads[t1].owner = "screenshot"
           THEN ScreenshotSaveHandled(
                    ScreenshotSaveHandled(screenshot_manager, threads, t1), threads, t2)
                = ScreenshotSaveHandled(
                    ScreenshotSaveHandled(screenshot_manager, threads, t2), threads, t1)
           ELSE AnnotationSaveHandled(
                    AnnotationSaveHandled(annotation_manager, threads, t1), threads, t2)
                = AnnotationSaveHandled(
                    AnnotationSaveHandled(annotation_manager, threads, t2), threads, t1)

\* the range [0.05, 8.0] and the 1e-3 resolution of the scale, on fractions
C17_Low == <<1, 20>>
C17_High == <<8, 1>>
C17_InRange(x) == RatLE(C17_Low, x) /\ RatLE(x, C17_High)
C17_Target(f) == IF RatLE(f, C17_Low) THEN C17_Low
                 ELSE IF RatLE(C17_High, f) THEN C17_High ELSE f
C17_Within(a, b) == \E k \in 0..((a[2] * b[2]) \div 1000) : Abs(a[1] * b[2] - b[1] * a[2]) = k

\* C17 as stated: the scale factor is always within [0.05, 8.0], and
\* set_scale_factor(f) with f below 0.05 leaves the scale at 0.05, with f above
\* 8.0 at 8.0.
C17_ScaleIsClamped ==
    /\ [](dialog_state = "open" => C17_InRange(scale_factor))
    /\ [][ \A f \in ScaleFactors :
              (SetScaleFactor(f) /\ ~C17_InRange(f))
                  => scale_factor' = C17_Target(f) ]_vars

\* C17, amended: the scale factor is always within [0.05, 8.0];
\* set_scale_factor(f) leaves the scale at f clamped into that range, or keeps
\* the old scale when that is within 1e-3 of the clamped value; fit_to_size
\* changes the scale only to a value within the range.
C17_ScaleIsClampedWithinResolution ==
    /\ [](dialog_state = "open" => C17_InRange(scale_factor))
    /\ [][ /\ \A f \in ScaleFactors :
                 SetScaleFactor(f)
                 => \/ scale_factor' = C17_Target(f)
                    \/ scale_factor' = scale_factor /\ C17_Within(scale_factor, C17_Target(f))
           /\ \A b \in FitBoxes :
                 FitToSize(b[1], b[2])
                 => scale_factor' = scale_factor \/ C17_InRange(scale_factor')
         ]_vars

C17_Witness ==
    /\ lastOp = "set_scale_factor"
    /\ dialog_state = "open"
    /\ scale_factor = <<101, 2000>>
    /\ shapes # << >>

\* the image fits the box in both dimensions
C18_Fits(img, b) == img.w <= b[1] /\ img.h <= b[2]

C19_ValuesAreClamped ==
    /\ annotation_manager.font_size \in 12..48
    /\ annotation_manager.line_width \in 1..10
    /\ dialog_state = "open" => line_width \in 1..10

\* x brought into lo..hi
C20_Into(x, lo, hi) == IF x < lo THEN lo ELSE IF x > hi THEN hi ELSE x

C21_Blank(l) == \A k \in 1..Len(l) : l[k] \in {" ", "\t", "\n"}

\* the 0-based indexes of the lines that are not blank
C21_Kept(lines) == {i \in 0..(Len(lines) - 1) : ~C21_Blank(lines[i + 1])}

\* the k-th smallest element of a set of indexes
C21_Nth(idx, k) == CHOOSE i \in idx : Cardinality({j \in idx : j < i}) = k - 1

\* the ops of an image are, in order, one plate and one text per kept line,
\* each text at baseline 10 + (i + 1) * (fs + 5) for its index i in the input
C21_Laid(ops, lines, fs) ==
    LET drawn == SelectSeq(ops, LAMBDA c : c.kind = "drawText")
        plates == SelectSeq(ops, LAMBDA c : c.kind = "fillRect")
        idx == C21_Kept(lines)
    IN  /\ Len(drawn) = Cardinality(idx)
        /\ Len(plates) = Cardinality(idx)
        /\ Len(ops) = 2 * Cardinality(idx)
        /\ \A k \in 1..Len(drawn) :
              LET i == C21_Nth(idx, k)
              IN  /\ drawn[k].text = lines[i + 1]
                  /\ drawn[k].pts[1] = <<10, 10 + (i + 1) * (fs + 5)>>
                  /\ drawn[k].size = fs
                  /\ plates[k].text = lines[i + 1]

\* C21: add_text_overlay draws line i iff it is not blank, at baseline
\* 10 + (i + 1) * (fontSize + 5) for its index i in the full list, so a
\* skipped blank line keeps its slot and gets no plate.
C21_BlankLinesKeepTheirSlot ==
    [][ \A i \in 1..Len(heap), l \in TextLineLists, z \in FontSizes :
           CallAddTextOverlay(i, l, z, "none")
           => /\ ret_image' = Len(heap')
              /\ C21_Laid(SubSeq(heap'[ret_image'].ops, Len(heap[i].ops) + 1,
                                 Len(heap'[ret_image'].ops)),
                          l, IF z = NoFontSize THEN annotation_manager.font_size ELSE z)
      ]_vars

\* a text, a blank and a text at font size 16: baselines 31 and 73, two plates
C21_Witness ==
    /\ lastOp = "add_text_overlay"
    /\ arg_fail = "none"
    /\ ret_image # Null
    /\ LET ops == heap[ret_image].ops
       IN  /\ Len(ops) = 4
           /\ ops[2].kind = "drawText" /\ ops[2].pts[1][2] = 31 /\ ops[2].text = <<"a">>
           /\ ops[4].kind = "drawText" /\ ops[4].pts[1][2] = 73 /\ ops[4].text = <<"b">>

\* C22: for the same start, end, color and stroke width the engine's
\* draw_arrow paints what the canvas's arrow renderer paints: the same shaft,
\* the same two head wings, the same pen.
C22_ArrowRenderersAgree ==
    [][ \A i \in 1..Len(heap), e \in ImagePoints, y \in Styles :
           CallDrawArrow(i, <<10, 10>>, e, y[1], y[2], "none")
           => LET c == IF y[1] = NoColor
                       THEN annotation_manager.default_annotation_color ELSE y[1]
                  w == IF y[2] = NoWidth THEN annotation_manager.line_width ELSE y[2]
                  ops == heap'[ret_image'].ops
              IN  SubSeq(ops, Len(heap[i].ops) + 1, Len(ops))
                     = DrawShape([tool |-> ARROW, points |-> << <<10, 10>>, e >>,
                                  color |-> c, line_width |-> w], config)
      ]_vars

\* q is x / s with the fraction dropped, for a display coordinate x >= 0
C23_Coord(q, x, s) == q >= 0 /\ q * s[1] <= x * s[2] /\ x * s[2] < (q + 1) * s[1]

\* pt is the image-space point of the display position pos at scale s
C23_Point(pt, pos, s) ==
    /\ C23_Coord(pt[1], pos[1], s)
    /\ C23_Coord(pt[2], pos[2], s)
    /\ s = <<1, 1>> => pt = pos

C23_Last(seq) == seq[Len(seq)]

\* C23: every point recorded by pointer-down, pointer-move and pointer-up is
\* the display position divided by the scale factor in force at the event,
\* converted to integers; at scale 1 it is the display position.
C23_PointsAreInImageSpace ==
    [][ \A p \in Positions :
          /\ (MousePressEvent(LeftButton, p) /\ current_tool # NONE)
             => /\ C23_Point(end_point', p, scale_factor)
                /\ Len(current_shape'.points) = 1
                /\ C23_Point(current_shape'.points[1], p, scale_factor)
          /\ (MouseMoveEvent(p) /\ drawing /\ current_tool # NONE)
             => /\ C23_Point(end_point', p, scale_factor)
                /\ current_tool = FREEHAND
                   => /\ Len(current_shape'.points) = Len(current_shape.points) + 1
                      /\ C23_Point(C23_Last(current_shape'.points), p, scale_factor)
          /\ (MouseReleaseEvent(LeftButton, p) /\ drawing)
             => /\ C23_Point(end_point', p, scale_factor)
                /\ (current_tool \in {ARROW, RECTANGLE} /\ Len(shapes') > Len(shapes))
                   => C23_Point(C23_Last(C23_Last(shapes').points), p, scale_factor)
      ]_vars

\* an arrow pressed at display (30, 40) at scale 1/2 and released at display
\* (30, 40) at scale 8: image points (60, 80) and (3, 5)
C23_Witness ==
    /\ lastOp = "mouse_release"
    /\ scale_factor = <<8, 1>>
    /\ shapes # << >>
    /\ C23_Last(shapes).tool = ARROW
    /\ C23_Last(shapes).points = << <<60, 80>>, <<3, 5>> >>

\* nothing but the record of the call changes
C24_NoStateChange ==
    /\ emitted' = << >>
    /\ UNCHANGED <<heap, config, config_data, widgetVars, sessionVars, managerVars, callVars>>

\* x brought into 1..10
C24_Clamped(x) == IF x < 1 THEN 1 ELSE IF x > 10 THEN 10 ELSE x

\* C24: set_tool, set_color and set_line_width emit their change notification
\* iff the value changed: one notification with the new value (the width
\* clamped to [1, 10]) when it differs from the current one, and otherwise no
\* notification and no state change.
C24_NotifyIffChanged ==
    [][ /\ \A t \in AnnotationTool :
              SetTool(t)
              => IF t # current_tool
                 THEN current_tool' = t /\ emitted' = << <<"tool_changed", t>> >>
                 ELSE C24_NoStateChange
        /\ \A c \in Colors :
              SetColor(c)
              => IF c # current_color
                 THEN current_color' = c /\ emitted' = << <<"color_changed", c>> >>
                 ELSE C24_NoStateChange
        /\ \A w \in Widths :
              SetLineWidth(w)
              => IF C24_Clamped(w) # line_width
                 THEN /\ line_width' = C24_Clamped(w)
                      /\ emitted' = << <<"line_width_changed", C24_Clamped(w)>> >>
                 ELSE C24_NoStateChange
      ]_vars

\* a repeated set_tool after a tool, a color and a width were changed
C24_Witness ==
    /\ lastOp = "set_tool"
    /\ emitted = << >>
    /\ current_tool = RECTANGLE
    /\ current_color = "#00FF00"
    /\ line_width = 10

C25_Done == <<"drawing_completed", "">>

C25_Count(sigs) == Cardinality({k \in 1..Len(sigs) : sigs[k] = C25_Done})

\* C25: drawing-completed is emitted exactly once by a pointer-up that ends an
\* active gesture and by no other step, and when it is emitted the canvas is
\* idle, the in-progress shape is cleared and the gesture's shape, if stored,
\* is the last element of shapes.
C25_CompletedOncePerGesture ==
    [][ /\ C25_Count(emitted')
             = IF drawing /\ \E p \in Positions : MouseReleaseEvent(LeftButton, p)
               THEN 1 ELSE 0
        /\ C25_Count(emitted') > 0
           => /\ ~drawing'
              /\ current_shape' = NoneShape
              /\ \/ shapes' = shapes
                 \/ /\ Len(shapes') = Len(shapes) + 1
                    /\ SubSeq(shapes', 1, Len(shapes)) = shapes
                    /\ shapes'[Len(shapes')].tool = current_shape.tool
                    /\ shapes'[Len(shapes')].color = current_shape.color
                    /\ shapes'[Len(shapes')].line_width = current_shape.line_width
                    /\ shapes'[Len(shapes')].points[1] = current_shape.points[1]
      ]_vars

\* a rectangle gesture has just ended and its shape is stored
C25_Witness ==
    /\ lastOp = "mouse_release"
    /\ emitted = <<C25_Done>>
    /\ ~drawing
    /\ current_shape = NoneShape
    /\ shapes # << >>
    /\ shapes[Len(shapes)].tool = RECTANGLE

\* C26: a screenshot request never receives the path of an earlier request
\* whose save has not written its file yet, so no screenshot overwrites
\* another.
C26_PathsAreUnique ==
    [][ (TakeScreenshot /\ ret_path' # NoPath)
        => \A t \in 1..Len(threads) :
              threads[t].outcome = "pending" => threads[t].file_path # ret_path'
      ]_vars

\* the four batch fields of the manager
BatchFields == <<screenshot_manager.is_batch_active, screenshot_manager.batch_timer,
                 screenshot_manager.batch_count, screenshot_manager.batch_interval>>

\* the signals named name in a list of signals
Named(sigs, name) == SelectSeq(sigs, LAMBDA g : g[1] = name)

\* C27: start_batch_screenshot returns False and leaves is_batch_active,
\* batch_timer, batch_count and batch_interval unchanged when a batch is
\* active or no video is loaded; without a video the manager stays inactive,
\* and a second start creates no second timer.
C27_RefusedStartChangesNothing ==
    [][ \A i \in BatchIntervals :
           (StartBatchScreenshot(i)
              /\ (screenshot_manager.is_batch_active \/ ~player.has_video))
           => /\ ret_ok' = FALSE
              /\ BatchFields' = BatchFields
              /\ threads' = threads
              /\ Named(emitted', "batch_screenshot_started") = << >>
              /\ (~screenshot_manager.is_batch_active /\ ~player.has_video)
                 => ~screenshot_manager'.is_batch_active
      ]_vars

\* a second start during a batch that has taken one screenshot
C27_Witness ==
    /\ lastOp = "start_batch_screenshot"
    /\ ret_ok = FALSE
    /\ screenshot_manager.is_batch_active
    /\ screenshot_manager.batch_timer = 10000
    /\ screenshot_manager.batch_count = 1

\* x brought into 1..60
C28_Clamped(x) == IF x < 1 THEN 1 ELSE IF x > 60 THEN 60 ELSE x

\* C28: a start on an inactive manager with a video returns True with the
\* batch active, a timer present, batch_interval the interval clamped to
\* [1, 60], one batch-started notification carrying it, and the first
\* screenshot taken at once: batch_count 1 and one progress (1, path) if it
\* returned a path, else batch_count 0 and no progress.
C28_StartTakesFirstScreenshot ==
    [][ \A i \in BatchIntervals \ {NoInterval} :
           (StartBatchScreenshot(i)
              /\ ~screenshot_manager.is_batch_active /\ player.has_video)
           => /\ ret_ok' = TRUE
              /\ screenshot_manager'.is_batch_active
              /\ screenshot_manager'.batch_timer # Null
              /\ screenshot_manager'.batch_interval = C28_Clamped(i)
              /\ Named(emitted', "batch_screenshot_started")
                    = << <<"batch_screenshot_started", C28_Clamped(i)>> >>
              /\ IF player.current_frame # Null
                 THEN /\ Len(threads') = Len(threads) + 1
                      /\ screenshot_manager'.batch_count = 1
                      /\ Named(emitted', "batch_screenshot_progress")
                            = << <<"batch_screenshot_progress", 1,
                                   threads'[Len(threads')].file_path>> >>
                 ELSE /\ threads' = threads
                      /\ screenshot_manager'.batch_count = 0
                      /\ Named(emitted', "batch_screenshot_progress") = << >>
      ]_vars

\* a batch started with interval 100 that took its first screenshot
C28_Witness ==
    /\ lastOp = "start_batch_screenshot"
    /\ ret_ok = TRUE
    /\ screenshot_manager.is_batch_active
    /\ screenshot_manager.batch_interval = 60
    /\ screenshot_manager.batch_timer # Null
    /\ screenshot_manager.batch_count = 1
    /\ Len(threads) = 1

\* what a stop of an active batch leaves
C29_Stopped ==
    /\ ~screenshot_manager'.is_batch_active
    /\ screenshot_manager'.batch_timer = Null
    /\ Named(emitted', "batch_screenshot_stopped")
          = << <<"batch_screenshot_stopped", screenshot_manager.batch_count>> >>

C30_CountIsProgress ==
    [][ /\ (OnBatchTimerTimeout /\ screenshot_manager.is_batch_active /\ player.has_video)
           => IF Len(threads') > Len(threads)
              THEN /\ screenshot_manager'.batch_count = screenshot_manager.batch_count + 1
                   /\ Named(emitted', "batch_screenshot_progress")
                         = << <<"batch_screenshot_progress",
                                screenshot_manager.batch_count + 1,
                                threads'[Len(threads')].file_path>> >>
              ELSE /\ player.current_frame = Null
                   /\ screenshot_manager'.batch_count = screenshot_manager.batch_count
                   /\ Named(emitted', "batch_screenshot_progress") = << >>
        /\ screenshot_manager'.is_batch_active
           => screenshot_manager'.batch_count
                 = (IF screenshot_manager.is_batch_active
                    THEN screenshot_manager.batch_count ELSE 0)
                   + Len(Named(emitted', "batch_screenshot_progress"))
      ]_vars

\* the second screenshot of a batch was taken by a timeout
C30_Witness ==
    /\ lastOp = "on_batch_timer_timeout"
    /\ screenshot_manager.is_batch_active
    /\ screenshot_manager.batch_count = 2
    /\ Len(Named(emitted, "batch_screenshot_progress")) = 1
    /\ Named(emitted, "batch_screenshot_progress")[1][2] = 2

\* C31: a timeout of an active batch without a video stops the batch (manager
\* inactive, timer removed, batch-stopped emitted) without a screenshot and
\* without a change of batch_count; a timeout on an inactive manager takes no
\* screenshot and changes nothing.
C31_TimeoutWithoutVideoStops ==
    [][ /\ (OnBatchTimerTimeout /\ screenshot_manager.is_batch_active /\ ~player.has_video)
           => /\ ~screenshot_manager'.is_batch_active
              /\ screenshot_manager'.batch_timer = Null
              /\ Named(emitted', "batch_screenshot_stopped")
                    = << <<"batch_screenshot_stopped", screenshot_manager.batch_count>> >>
              /\ screenshot_manager'.batch_count = screenshot_manager.batch_count
              /\ Named(emitted', "batch_screenshot_progress") = << >>
              /\ Named(emitted', "screenshot_failed") = << >>
              /\ UNCHANGED <<heap, threads, files>>
        /\ (OnBatchTimerTimeout /\ ~screenshot_manager.is_batch_active)
           => /\ emitted' = << >>
              /\ UNCHANGED <<heap, config, config_data, widgetVars, sessionVars, managerVars, callVars>>
      ]_vars

\* the video went away during a batch of one screenshot, and the next timeout
\* stopped the batch
C31_Witness ==
    /\ lastOp = "on_batch_timer_timeout"
    /\ ~player.has_video
    /\ ~screenshot_manager.is_batch_active
    /\ screenshot_manager.batch_timer = Null
    /\ screenshot_manager.batch_count = 1
    /\ emitted # << >>
    /\ emitted[1] = <<"batch_screenshot_stopped", 1>>

\* the save threads of the ScreenshotManager whose successful save is handled
\* by the step
C32_SavedNow ==
    {t \in 1..Len(threads) : /\ threads[t].owner = "screenshot"
                             /\ threads[t].outcome = "finished"
                             /\ ~threads[t].handled /\ threads'[t].handled}

C33_LastPathIsSet ==
    Len(threads) > 0
    => /\ screenshot_manager.last_screenshot_path # NoPath
       /\ \E t \in 1..Len(threads) :
             threads[t].file_path = screenshot_manager.last_screenshot_path

\* ---------------------------------------------------------------------------
\* TimeFormatter.time_string_to_ms
\* ---------------------------------------------------------------------------

\* str.split(sep): the fields between the separators, at least one field
RECURSIVE SplitOn(_, _)
SplitOn(str, sep) ==
    IF \A i \in 1..Len(str) : str[i] # sep THEN <<str>>
    ELSE LET i == CHOOSE j \in 1..Len(str) :
                      str[j] = sep /\ \A k \in 1..(j - 1) : str[k] # sep
         IN  <<SubSeq(str, 1, i - 1)>> \o SplitOn(SubSeq(str, i + 1, Len(str)), sep)

\* str.strip()
RECURSIVE Strip(_)
Strip(str) ==
    IF str = << >> THEN str
    ELSE IF str[1] \in Whitespace THEN Strip(Tail(str))
    ELSE IF str[Len(str)] \in Whitespace THEN Strip(SubSeq(str, 1, Len(str) - 1))
    ELSE str

DigitValue(c) == (CHOOSE i \in 1..10 : Digits[i] = c) - 1

RECURSIVE DigitsValue(_)
DigitsValue(str) ==
    IF str = << >> THEN 0
    ELSE 10 * DigitsValue(SubSeq(str, 1, Len(str) - 1)) + DigitValue(str[Len(str)])

IsDigits(str) ==
    /\ str # << >>
    /\ \A i \in 1..Len(str) : \E d \in 1..10 : Digits[d] = str[i]

\* int(field): surrounding whitespace is dropped, one sign is allowed, the rest
\* is decimal digits; anything else raises ValueError
ParseInt(field) ==
    LET body == Strip(field)
        signed == body # << >> /\ body[1] \in {"+", "-"}
        digits == IF signed THEN Tail(body) ELSE body
    IN  IF IsDigits(digits)
        THEN [ok |-> TRUE,
              value |-> IF signed /\ body[1] = "-" THEN 0 - DigitsValue(digits)
                        ELSE DigitsValue(digits)]
        ELSE [ok |-> FALSE, value |-> 0]

\* a parser that drops the hours field
TimeStringToMs_NoHours(time_string) ==
    LET parts == SplitOn(time_string, ":")
        fields == [i \in 1..Len(parts) |-> ParseInt(parts[i])]
    IN  IF Len(parts) \notin {2, 3} THEN 0
        ELSE IF \E i \in 1..Len(parts) : ~fields[i].ok THEN 0
        ELSE LET hours == 0
                 minutes == fields[Len(parts) - 1].value
                 seconds == fields[Len(parts)].value
             IN  (hours * 3600 + minutes * 60 + seconds) * 1000

TimeStringToMs(time_string) ==
    LET parts == SplitOn(time_string, ":")
        fields == [i \in 1..Len(parts) |-> ParseInt(parts[i])]
    IN  IF Len(parts) \notin {2, 3} THEN 0
        ELSE IF \E i \in 1..Len(parts) : ~fields[i].ok THEN 0
        ELSE LET hours == IF Len(parts) = 3 THEN fields[1].value ELSE 0
                 minutes == fields[Len(parts) - 1].value
                 seconds == fields[Len(parts)].value
             IN  (hours * 3600 + minutes * 60 + seconds) * 1000

\* the calls, from a caller that holds a number or a string
CallMsToTimeString(milliseconds) ==
    /\ arg_val' = Num(milliseconds)
    /\ ret_val' = Str(MsToTimeString(milliseconds))
    /\ lastOp' = "ms_to_time_string"
    /\ emitted' = << >>
    /\ painted' = << >>
    /\ UNCHANGED <<heap, config, config_data, widgetVars, sessionVars, managerVars, calls,
                   arg_image, arg_points, arg_fail, ret_image, ret_path, raised,
                   ret_ok>>

CallTimeStringToMs(time_string) ==
    /\ arg_val' = Str(time_string)
    /\ ret_val' = Num(TimeStringToMs(time_string))
    /\ lastOp' = "time_string_to_ms"
    /\ emitted' = << >>
    /\ painted' = << >>
    /\ UNCHANGED <<heap, config, config_data, widgetVars, sessionVars, managerVars, calls,
                   arg_image, arg_points, arg_fail, ret_image, ret_path, raised,
                   ret_ok>>

\* a formatted time handed back to the parser
ParseFormatted ==
    /\ lastOp = "ms_to_time_string"
    /\ CallTimeStringToMs(ret_val.str)

Milliseconds ==
    {-1000, -1}
    \cup {((h * 3600 + m * 60 + s) * 1000) + f :
              h \in {0, 1, 100}, m \in {0, 1, 59}, s \in {0, 1, 5, 59}, f \in {0, 999}}

TimeStrings ==
    {<< >>,
     <<"i", "n", "v", "a", "l", "i", "d">>,
     <<"1", ":", "2", ":", "3", ":", "4">>,
     <<"0", "2", ":", "0", "5">>,
     <<"1", "0", ":", "3", "0">>,
     <<"0", "1", ":", "0", "2", ":", "0", "3">>,
     <<"1", "2">>,
     <<":">>,
     <<"1", ":", ":", "2">>,
     <<"1", ":", "x">>,
     <<"1", ".", "5", ":", "0", "0">>,
     <<" ", "1", ":", "2", " ">>,
     <<"+", "1", ":", "0", "0">>,
     <<"1", ":", "+">>}

NextTime ==
    \/ \E ms \in Milliseconds : CallMsToTimeString(ms)
    \/ \E str \in TimeStrings : CallTimeStringToMs(str)
    \/ ParseFormatted

SpecTime == Init /\ [][NextTime]_vars

\* a string of the form MM:SS or HH:MM:SS whose fields are integers
WellFormed(str) ==
    LET parts == SplitOn(str, ":")
    IN  /\ Len(parts) \in {2, 3}
        /\ \A i \in 1..Len(parts) : ParseInt(parts[i]).ok

\* C34: parsing a formatted time gives the time back without its milliseconds
\* (ms - ms % 1000) for every ms >= 0; every negative ms formats as "00:00:00";
\* and every string that is not MM:SS or HH:MM:SS with integer fields parses
\* to 0.
C34_RoundTripDropsMilliseconds ==
    [][/\ (/\ lastOp = "ms_to_time_string" /\ arg_val.num >= 0
           /\ lastOp' = "time_string_to_ms" /\ arg_val' = ret_val)
          => ret_val' = Num(arg_val.num - (arg_val.num % 1000))
       /\ (lastOp' = "ms_to_time_string" /\ arg_val'.num < 0)
          => ret_val' = Str(<<"0", "0", ":", "0", "0", ":", "0", "0">>)
       /\ (lastOp' = "time_string_to_ms" /\ ~WellFormed(arg_val'.str))
          => ret_val' = Num(0)]_vars

\* a time of more than an hour, with milliseconds, came back from the parser
C34_Witness ==
    /\ lastOp = "time_string_to_ms"
    /\ arg_val = Str(<<"0", "1", ":", "5", "9", ":", "5", "9">>)
    /\ ret_val = Num(7199000)

\* ---------------------------------------------------------------------------
\* ConfigManager.get / ConfigManager.set on dotted keys
\* ---------------------------------------------------------------------------

HasKey(node, k) == node.kind = "dict" /\ k \in DOMAIN node.items

\* config[k] = child on a dict
WithItem(node, k, child) ==
    Dict([j \in (DOMAIN node.items) \cup {k} |->
             IF j = k THEN child ELSE node.items[j]])

\* get: `for k in keys: value = value[k]`; KeyError and TypeError give default
RECURSIVE StoreLookup(_, _, _)
StoreLookup(node, keys, default) ==
    IF keys = << >> THEN node
    ELSE IF ~HasKey(node, Head(keys)) THEN default
    ELSE StoreLookup(node.items[Head(keys)], Tail(keys), default)

\* set: the walk from `config`, creating {} for a missing parent, then the
\* assignment of the last key. `k not in config`, `config[k] = {}`, `config[k]`
\* and `config[keys[-1]] = value` raise TypeError on an int, a str or None.
RECURSIVE StoreAssign(_, _, _)
StoreAssign(node, keys, value) ==
    IF node.kind # "dict" THEN [raised |-> TRUE, node |-> node]
    ELSE IF Len(keys) = 1
         THEN [raised |-> FALSE, node |-> WithItem(node, Head(keys), value)]
    ELSE LET k == Head(keys)
             created == IF HasKey(node, k) THEN node ELSE WithItem(node, k, EmptyDict)
             below == StoreAssign(created.items[k], Tail(keys), value)
         IN  [raised |-> below.raised, node |-> WithItem(created, k, below.node)]

ConfigGet(key, default) ==
    /\ arg_val' = [key |-> key, default |-> default]
    /\ ret_val' = StoreLookup(config_data, SplitOn(key, "."), default)
    /\ raised' = FALSE
    /\ lastOp' = "config_get"
    /\ emitted' = << >>
    /\ painted' = << >>
    /\ UNCHANGED <<heap, config, config_data, widgetVars, sessionVars, managerVars,
                   calls, arg_image, arg_points, arg_fail, ret_image, ret_path, ret_ok>>

ConfigSet(key, value) ==
    LET r == StoreAssign(config_data, SplitOn(key, "."), value)
    IN  /\ arg_val' = [key |-> key, value |-> value]
        /\ ret_val' = NoValue
        /\ config_data' = r.node
        /\ raised' = r.raised
        /\ lastOp' = "config_set"
        /\ emitted' = << >>
        /\ painted' = << >>
        /\ UNCHANGED <<heap, config, widgetVars, sessionVars, managerVars,
                       calls, arg_image, arg_points, arg_fail, ret_image, ret_path,
                       ret_ok>>

\* the dotted keys of the unit tests, shortened to one letter a name, with
\* their prefixes and extensions, the empty key and a key that ends in a dot
StoreKeys ==
    {<<"p">>, <<"p", ".", "v">>, <<"p", ".", "v", ".", "m">>,
     <<"t">>, <<"t", ".", "n">>, <<"t", ".">>,
     <<"d", ".", "n">>, <<"d", ".", "n", ".", "k">>,
     << >>}

StoreValues == {Num(90), Str(<<"new_value">>)}

StoreDefaults == {NoValue, Str(<<"default">>)}

NextStore ==
    \/ \E key \in StoreKeys, value \in StoreValues : ConfigSet(key, value)
    \/ \E key \in StoreKeys, default \in StoreDefaults : ConfigGet(key, default)

SpecStore == Init /\ [][NextStore]_vars

\* a is a dotted prefix of b, or b itself
IsPrefix(a, b) ==
    LET as == SplitOn(a, ".")
        bs == SplitOn(b, ".")
    IN  Len(as) <= Len(bs) /\ SubSeq(bs, 1, Len(as)) = as

\* a key is absent when the walk along it leaves the stored dicts
RECURSIVE IsStored(_, _)
IsStored(node, keys) ==
    \/ keys = << >>
    \/ HasKey(node, Head(keys)) /\ IsStored(node.items[Head(keys)], Tail(keys))

\* what a set(key, value) that returned leaves behind, and what get answers
C35_SetThenGet(key, value) ==
    /\ \A default \in StoreDefaults :
          StoreLookup(config_data', SplitOn(key, "."), default) = value
    /\ \A other \in StoreKeys, default \in StoreDefaults :
          ~IsPrefix(other, key) /\ ~IsPrefix(key, other)
              => StoreLookup(config_data', SplitOn(other, "."), default)
                     = StoreLookup(config_data, SplitOn(other, "."), default)

\* C35: after set(k, v), get(k) returns v and get of every key that is neither
\* a dotted prefix nor a dotted extension of k returns what it returned before;
\* get of an absent key returns the supplied default; and set never fails,
\* whatever value was stored along k's path.
C35_SetNeverFails ==
    [][/\ \A key \in StoreKeys, value \in StoreValues :
             ConfigSet(key, value) => ~raised' /\ C35_SetThenGet(key, value)
       /\ \A key \in StoreKeys, default \in StoreDefaults :
             ConfigGet(key, default) /\ ~IsStored(config_data, SplitOn(key, "."))
                 => ret_val' = default]_vars

\* the same, for the calls of set that return
C35_ReturningSetThenGet ==
    [][/\ \A key \in StoreKeys, value \in StoreValues :
             ConfigSet(key, value) /\ ~raised' => C35_SetThenGet(key, value)
       /\ \A key \in StoreKeys, default \in StoreDefaults :
             ConfigGet(key, default) /\ ~IsStored(config_data, SplitOn(key, "."))
                 => ret_val' = default]_vars

\* ---------------------------------------------------------------------------
\* AnnotationWidget.get_annotated_image
\* ---------------------------------------------------------------------------

\* `return self.image.copy()`
WidgetGetAnnotatedImageOn(h, img) ==
    LET h1 == Copy(h, img)
    IN  [heap |-> h1, ret |-> Len(h1)]

\* C36: while a session is open, the image AnnotationWidget.get_annotated_image
\* returns has the content of the session's finalize result: the base image
\* with every committed shape painted over it.
C36_WidgetImageIsFinal ==
    dialog_state = "open"
        => LET w == WidgetGetAnnotatedImageOn(heap, image)
               f == GetAnnotatedImageOn(heap, original_image, shapes, config)
           IN  w.heap[w.ret] = f.heap[f.ret]

\* the content of the image the session's finalize operation returns
FinalImage(h, orig, ss, cfg) ==
    LET r == GetAnnotatedImageOn(h, orig, ss, cfg)
    IN  r.heap[r.ret]

\* C37: set_scale_factor and fit_to_size leave the committed shapes, the shape
\* in progress and its points, the Drawing/Idle state, the current tool, the
\* color and the stroke width as they were, and with them the finalize result.
C37_ScaleLeavesShapesAlone ==
    [][lastOp' \in {"set_scale_factor", "fit_to_size"}
          => /\ UNCHANGED <<shapes, current_shape, drawing, current_tool,
                            current_color, line_width>>
             /\ FinalImage(heap', original_image', shapes', config')
                   = FinalImage(heap, original_image, shapes, config)]_vars

\* the scale factor was changed with an arrow committed
C37_Witness ==
    /\ lastOp = "set_scale_factor"
    /\ scale_factor # Rat(1, 1)
    /\ Len(shapes) = 1
    /\ Len(shapes[1].points) = 2

\* the scale factor was changed during a gesture
C37_MidGesture ==
    /\ lastOp = "fit_to_size"
    /\ drawing
    /\ current_shape # NoneShape

\* C38: during a session a committed shape keeps its tool, its points, its
\* color and its stroke width under every canvas operation; the only change
\* to the committed list besides an append is the removal of its last shape by
\* undo.
C38_CommittedShapesAreImmutable ==
    [][dialog_state = "open"
          => \/ /\ Len(shapes') >= Len(shapes)
                /\ \A i \in 1..Len(shapes) : shapes'[i] = shapes[i]
             \/ /\ lastOp' = "undo"
                /\ shapes # << >>
                /\ shapes' = SubSeq(shapes, 1, Len(shapes) - 1)]_vars

\* a second gesture was committed after a first shape, with a different tool
C38_Witness ==
    /\ lastOp = "mouse_release"
    /\ Len(shapes) = 2
    /\ shapes[1].tool # shapes[2].tool

\* C39: the canvas copies the image it is given (original_image is a new
\* object with the content of the caller's image), and no operation of the
\* open session -- gesture, undo, paint, scale change, finalize -- changes
\* original_image, the caller's image or any other image that existed before
\* it; so finalizing again after a finalize gives an equal image.
C39_BaseImageIsNeverModified ==
    [][/\ (dialog_state # "open" /\ dialog_state' = "open")
          => /\ original_image' > Len(heap)
             /\ image' > Len(heap)
             /\ heap'[original_image'] = heap[player.current_frame]
       /\ (dialog_state = "open")
          => /\ original_image' = original_image
             /\ Len(heap') >= Len(heap)
             /\ \A i \in 1..Len(heap) : heap'[i] = heap[i]
             /\ shapes' = shapes
                   => FinalImage(heap', original_image', shapes', config')
                         = FinalImage(heap, original_image, shapes, config)]_vars

\* a session with a drawn arrow was finalized
C39_Witness ==
    /\ lastOp = "accept"
    /\ Len(shapes) >= 1
    /\ Len(shapes[1].points) = 2
    /\ heap[ret_image].ops # << >>
    /\ heap[original_image].ops = << >>

\* C40: is_batch_active is true exactly when the batch's timer runs; a timer
\* that start_batch_screenshot created and could not start is present while
\* the manager is inactive.
C40_ActiveIffTimerRuns ==
    screenshot_manager.is_batch_active
        <=> screenshot_manager.batch_timer \notin {Null, IdleTimer}

\* C40 as stated: is_batch_active is true if and only if batch_timer is present
C40_ActiveIffTimerPresent ==
    screenshot_manager.is_batch_active <=> screenshot_manager.batch_timer # Null

\* a start whose timer could not be started has returned
C40_Witness ==
    /\ lastOp = "start_batch_screenshot"
    /\ ~ret_ok
    /\ screenshot_manager.batch_timer = IdleTimer
    /\ ~screenshot_manager.is_batch_active

====
